---------------------------- MODULE Spec2Model ----------------------------
(***************************************************************************)
(* Avatar CLI: the Manifest -> Lock -> State -> workspace pipeline.        *)
(*                                                                         *)
(* Conventions of the model                                                *)
(*   - Option<T> is a set with at most one element: None = {}, Some(x) =   *)
(*     {x}.                                                                *)
(*   - A string (String, PathBuf) is a sequence of one-character tokens,   *)
(*     so that format!, replace and join act on characters.                *)
(*   - A BTreeMap is a function, a BTreeSet a set; where the code iterates *)
(*     one into a Vec, the Vec is the sequence in key order.               *)
(*   - SHA-256 is collision free: the digest of x is the record            *)
(*     [sha |-> x].                                                        *)
(*   - exit(code) ends the running command with that code.                 *)
(***************************************************************************)
EXTENDS Naturals, Sequences, FiniteSets, TLC

VARIABLES
    manifest,     \* bytes of .avatar-cli/Avatarfile
    lockFile,     \* Option: bytes of .avatar-cli/Avatarfile.lock
    stateFile,    \* Option: bytes of .avatar-cli/volatile/state.yml
    volatileDir,  \* the directory .avatar-cli/volatile exists
    binDir,       \* Option: the names of the symlinks in volatile/bin
    homeDir,      \* Option: the entries of volatile/home
    imagesDir,    \* Option: [dirs, passwd], the image refs under volatile/images
    local,        \* the runtime's local images
    volumes,      \* the runtime's volumes: name -> chowned by avatar
    helpers,      \* the runtime's install-helper containers (names)
    session,      \* AVATAR_CLI_SESSION_TOKEN (and the session's other vars) set
    pc,           \* where the running command stands; "idle" between commands
    cmd,          \* the running (or last) command
    loc,          \* the running command's local variables
    log,          \* what the running (or last) command did, in order
    exitCode,     \* how the last command ended
    launched,     \* Option: the container the last run/shim invocation exec'ed
    prevRun,      \* the command before this one: [cmd, exit, touched]
    touched,      \* what the user changed since the last command ended
    steps,        \* commands started, user changes and failures so far
    mergeIn,      \* inputs of one merge_run_and_shell_configs call
    mergeOut,     \* its result, None before the call
    argsIn,       \* one invocation of a binary: [mode, binary, user_args]
    argsOut,      \* Option: the arguments docker run got after the program
    initIn,       \* one `avatar init`: [current_dir, project_path, fs, git]
    initOut,      \* Option: [exit, fs, git] when it ended
    dispatchIn,   \* the arguments of one start of the process, argv[0] first
    dispatchOut   \* Option: what main did with them

fileVars == <<manifest, lockFile, stateFile>>

dirVars == <<volatileDir, binDir, homeDir, imagesDir>>

dockerVars == <<local, volumes, helpers>>

procVars == <<pc, cmd, loc, log, exitCode, launched, prevRun, touched>>

mainVars ==
    <<fileVars, dirVars, dockerVars, session, procVars, steps>>

mergeVars == <<mergeIn, mergeOut>>

argsVars == <<argsIn, argsOut>>

initVars == <<initIn, initOut>>

dispatchVars == <<dispatchIn, dispatchOut>>

pureVars == <<mergeVars, argsVars, initVars, dispatchVars>>

vars == <<mainVars, pureVars>>

(* Bound of the exploration: the commands started, the changes the user    *)
(* makes between them and the failures of the environment, together        *)
MaxSteps == 4

---------------------------------------------------------------------------
(* Option<T>                                                               *)

None == {}

Some(x) == {x}

Get(o) == CHOOSE x \in o : TRUE

Opt(S) == {None} \cup {Some(x) : x \in S}

(* A call that returns v, and one that ends the process with exit(code)    *)
OK(v) == [exit |-> "OK", val |-> v]

Exit(code) == [exit |-> code, val |-> None]

(* All BTreeMaps with keys in K and values in V.                           *)
Maps(K, V) == UNION {[D -> V] : D \in SUBSET K}

---------------------------------------------------------------------------
(* Strings                                                                 *)

RECURSIVE Str(_)
Str(s) == IF s = <<>> THEN "" ELSE Head(s) \o Str(Tail(s))

(* str::replace(from, to) for single characters                            *)
Replace(s, from, to) ==
    [i \in 1..Len(s) |-> IF s[i] = from THEN to ELSE s[i]]

(* Path::is_relative                                                       *)
is_relative(p) == p = <<>> \/ Head(p) # "/"

(* The paths of the model in the order of Ord for PathBuf.                 *)
SortedPaths == << <<"/", "c">>, <<"/", "d">>, <<"/", "o">>, <<"r">> >>

(* Iteration of a BTreeMap's keys or of a BTreeSet of paths.               *)
InOrder(S) == SelectSeq(SortedPaths, LAMBDA p : p \in S)

RECURSIVE JoinWith(_, _)
JoinWith(seqs, sep) ==
    IF seqs = <<>> THEN <<>>
    ELSE IF Len(seqs) = 1 THEN Head(seqs)
    ELSE Head(seqs) \o sep \o JoinWith(Tail(seqs), sep)

---------------------------------------------------------------------------
(* project_config.rs: the run-config merger                                *)

(* hex::encode(&digest(&SHA256, container_path)[0..16]): 32 hex digits,    *)
(* one token of the name, different for different paths.                   *)
path_hash(container_path) == << "#" \o Str(container_path) >>

generate_volume_name(project_internal_id, image_ref, binary_name, volume_config, container_path) ==
    IF volume_config.name # None
    THEN Get(volume_config.name)
    ELSE CASE volume_config.scope = "Project" ->
                <<"p", "r", "j", "_">> \o project_internal_id \o <<"_">>
                    \o path_hash(container_path)
           [] volume_config.scope = "OCIImage" ->
                <<"i", "m", "g", "_">> \o project_internal_id \o <<"_">>
                    \o Replace(image_ref, "/", ".") \o <<"_">>
                    \o path_hash(container_path)
           [] volume_config.scope = "Binary" ->
                <<"b", "i", "n", "_">> \o project_internal_id \o <<"_">>
                    \o image_ref \o <<"_">> \o binary_name \o <<"_">>
                    \o path_hash(container_path)

generate_volume_config_lock(image_volume_configs, project_internal_id, image_ref, binary_name) ==
    IF image_volume_configs = None THEN None
    ELSE LET src == Get(image_volume_configs)
             keys == InOrder(DOMAIN src)
         IN  Some([i \in 1..Len(keys) |->
                     [container_path |-> keys[i],
                      volume_name |->
                          generate_volume_name(project_internal_id, image_ref,
                                               binary_name, src[keys[i]],
                                               keys[i])]])

(* BTreeMap::clone followed by insert of every entry of the other map      *)
MapInsertAll(base, new) ==
    [k \in (DOMAIN base) \cup (DOMAIN new) |->
        IF k \in DOMAIN new THEN new[k] ELSE base[k]]

merge_bindings(base_bindings, new_bindings) ==
    IF base_bindings # None
    THEN IF new_bindings # None
         THEN Some(MapInsertAll(Get(base_bindings), Get(new_bindings)))
         ELSE base_bindings
    ELSE new_bindings

(* merge_envs where the base's value of a shared key is kept               *)
merge_envs_keeping_base(base_env, new_env) ==
    IF base_env # None
    THEN IF new_env # None
         THEN Some(MapInsertAll(Get(new_env), Get(base_env)))
         ELSE base_env
    ELSE new_env

merge_envs(base_env, new_env) ==
    IF base_env # None
    THEN IF new_env # None
         THEN Some(MapInsertAll(Get(base_env), Get(new_env)))
         ELSE base_env
    ELSE new_env

(* merge_envs_from_host where the overlay's set replaces the base's        *)
merge_envs_from_host_replacing(base_env, new_env) ==
    IF base_env # None
    THEN IF new_env # None THEN new_env ELSE base_env
    ELSE new_env

merge_envs_from_host(base_env, new_env) ==
    IF base_env # None
    THEN IF new_env # None
         THEN Some(Get(base_env) \cup Get(new_env))
         ELSE base_env
    ELSE new_env

merge_extra_paths(base_extra_paths, new_extra_paths) ==
    IF base_extra_paths # None
    THEN IF new_extra_paths # None
         THEN Some(Get(base_extra_paths) \cup Get(new_extra_paths))
         ELSE base_extra_paths
    ELSE new_extra_paths

merge_volumes(base_volumes, new_volumes, project_internal_id, image_ref, binary_name) ==
    IF base_volumes # None
    THEN IF new_volumes # None
         THEN generate_volume_config_lock(
                  Some(MapInsertAll(Get(base_volumes), Get(new_volumes))),
                  project_internal_id, image_ref, binary_name)
         ELSE generate_volume_config_lock(base_volumes, project_internal_id,
                                          image_ref, binary_name)
    ELSE generate_volume_config_lock(new_volumes, project_internal_id,
                                     image_ref, binary_name)

merge_run_configs(base_config, new_config, project_internal_id, image_name, image_tag, binary_name) ==
    LET image_ref_for_docker_objs_labels == image_name \o <<"-">> \o image_tag
        lockOf(c) ==
            [bindings |-> c.bindings,
             volumes |-> generate_volume_config_lock(
                             c.volumes, project_internal_id,
                             image_ref_for_docker_objs_labels, binary_name),
             env |-> c.env,
             env_from_host |-> c.env_from_host,
             extra_paths |-> c.extra_paths]
    IN  IF base_config # None
        THEN IF new_config # None
             THEN LET b == Get(base_config)
                      n == Get(new_config)
                  IN  Some([bindings |-> merge_bindings(b.bindings, n.bindings),
                            volumes |-> merge_volumes(
                                            b.volumes, n.volumes,
                                            project_internal_id,
                                            image_ref_for_docker_objs_labels,
                                            binary_name),
                            env |-> merge_envs(b.env, n.env),
                            env_from_host |->
                                merge_envs_from_host(b.env_from_host,
                                                     n.env_from_host),
                            extra_paths |->
                                merge_extra_paths(b.extra_paths,
                                                  n.extra_paths)])
             ELSE Some(lockOf(Get(base_config)))
        ELSE IF new_config # None
             THEN Some(lockOf(Get(new_config)))
             ELSE None

(* TRUE when the check exits with USAGE.                                   *)
check_against_forbidden_path_var(shell_config, run_config_lock) ==
    \/ shell_config.env # None /\ "PATH" \in DOMAIN Get(shell_config.env)
    \/ run_config_lock.env # None /\ "PATH" \in DOMAIN Get(run_config_lock.env)
    \/ /\ run_config_lock.env_from_host # None
       /\ "PATH" \in Get(run_config_lock.env_from_host)

customize_oci_image_path_env_var(oci_image_path, extra_paths) ==
    LET rel == SelectSeq(InOrder(extra_paths), is_relative)
        joined == [i \in 1..Len(rel) |->
                      <<"/", "p", "l", "a", "y", "g", "r", "o", "u", "n", "d">>
                          \o <<"/">> \o rel[i]]
    IN  JoinWith(joined, <<":">>) \o <<":">> \o oci_image_path

(* docker.rs get_path_env_var_from_oci_image: what `docker inspect` of the *)
(* image's environment gives.  inspect is the runtime's answer:            *)
(* [rc |-> "OK", path |-> Option<String>] (the image's PATH, if it has     *)
(* one), or rc "SOFTWARE" (inspect failed), "OSERR" (docker not run) or    *)
(* "PROTOCOL" (output not UTF-8).                                          *)
get_path_env_var_from_oci_image(inspect) ==
    IF inspect.rc = "OK" THEN [exit |-> "OK", val |-> inspect.path]
    ELSE [exit |-> inspect.rc, val |-> None]

(* The result is [exit |-> "OK", val |-> Option<OCIContainerRunConfigLock>] *)
(* or [exit |-> code, val |-> None] when the call ends the process.        *)
(* inspect is the runtime's answer for image_name@sha256:image_hash, read  *)
(* only when the shell config has extra_paths.                             *)
merge_run_and_shell_configs(base_config, new_config, shell_config, project_internal_id, image_name, image_tag, inspect, binary_name) ==
    LET merged_run_config ==
            merge_run_configs(base_config, new_config, project_internal_id,
                              image_name, image_tag, binary_name)
        image_path == get_path_env_var_from_oci_image(inspect)
    IN  IF shell_config = None THEN OK(merged_run_config)
        ELSE LET sc == Get(shell_config) IN
          IF merged_run_config # None
          THEN LET m == Get(merged_run_config)
                   env1 == merge_envs(sc.env, m.env)
               IN  IF check_against_forbidden_path_var(sc, m)
                   THEN Exit("USAGE")
                   ELSE IF sc.extra_paths = None
                   THEN OK(Some([m EXCEPT !.env = env1]))
                   ELSE IF image_path.exit # "OK"
                   THEN Exit(image_path.exit)
                   ELSE IF image_path.val = None
                   THEN OK(Some([m EXCEPT !.env = env1]))
                   ELSE LET customized_path ==
                                customize_oci_image_path_env_var(
                                    Get(image_path.val), Get(sc.extra_paths))
                        IN  OK(Some([m EXCEPT !.env =
                               IF env1 # None
                               THEN Some(MapInsertAll(Get(env1),
                                         [k \in {"PATH"} |-> customized_path]))
                               ELSE Some([k \in {"PATH"} |-> customized_path])]))
          ELSE IF sc.env # None /\ "PATH" \in DOMAIN Get(sc.env)
               THEN Exit("USAGE")
               ELSE LET only(e) == OK(Some([env |-> e,
                                            env_from_host |-> None,
                                            extra_paths |-> None,
                                            bindings |-> None,
                                            volumes |-> None]))
                    IN  IF sc.extra_paths = None THEN only(sc.env)
                        ELSE IF image_path.exit # "OK"
                        THEN Exit(image_path.exit)
                        ELSE IF image_path.val = None THEN only(sc.env)
                        ELSE only(Some([k \in {"PATH"} |->
                                 customize_oci_image_path_env_var(
                                     Get(image_path.val),
                                     Get(sc.extra_paths))]))

---------------------------------------------------------------------------
(* The strings of the model                                                *)

PID == <<"P", "1">>

ImgAB == <<"a", "/", "b">>

ImgC == <<"c">>

(* Image names and a tag that docker accepts and that differ from the      *)
(* others only by ., / and -                                               *)
ImgADotB == <<"a", ".", "b">>

ImgCDash1 == <<"c", "-", "1">>

Tag1Dash1 == <<"1", "-", "1">>

Tag1 == <<"1">>

Tag2 == <<"2">>

BinX == <<"x">>

BinY == <<"y">>

PathC == <<"/", "c">>

PathD == <<"/", "d">>

PathO == <<"/", "o">>

PathR == <<"r">>

Scopes == {"Project", "OCIImage", "Binary"}

(* VolumeConfig: an optional explicit name and a scope                     *)
VolumeConfigs == [name : Opt({<<"n">>}), scope : Scopes]

NoRunConfig ==
    [env |-> None, env_from_host |-> None, extra_paths |-> None,
     volumes |-> None, bindings |-> None]

(* OCIContainerRunConfig values, one family of fields at a time            *)
EnvConfigs ==
    {[NoRunConfig EXCEPT !.env = e, !.env_from_host = h] :
        e \in Opt(Maps({"A"}, {<<"1">>, <<"2">>})
                  \cup {[k \in {"PATH"} |-> <<"1">>],
                        [k \in {"A", "PATH"} |-> <<"1">>]}),
        h \in Opt({{"H"}, {"PATH"}})}

VolumeRunConfigs ==
    {[NoRunConfig EXCEPT !.volumes = v] :
        v \in Opt(Maps({PathC, PathD}, VolumeConfigs))}

BindingConfigs ==
    {[NoRunConfig EXCEPT !.bindings = b, !.extra_paths = x] :
        b \in Opt(Maps({PathC, PathD}, {PathO, PathR})),
        x \in Opt({{PathR}, {PathO}})}

ShellConfigs ==
    [env : Opt({<<>>, [k \in {"S"} |-> <<"3">>], [k \in {"A"} |-> <<"3">>],
               [k \in {"PATH"} |-> <<"3">>]}),
     extra_paths : Opt({{PathR}, {PathO}, {PathO, PathR}})]

(* Answers of `docker inspect` for the image's environment                 *)
InspectEnvAnswers ==
    {[rc |-> "OK", path |-> Some(<<"/", "b", "i", "n">>)],
     [rc |-> "OK", path |-> None],
     [rc |-> "SOFTWARE", path |-> None]}

MergeInputs(Configs, Shells, Answers, Images, Bins) ==
    [base_config : Opt(Configs), new_config : Opt(Configs),
     shell_config : Shells, inspect : Answers,
     image_name : Images, image_tag : {Tag1}, binary_name : Bins]

(* One unnamed volume of every scope, under every image, tag and binary    *)
NameInputs ==
    [base_config : {None},
     new_config :
        {Some([NoRunConfig EXCEPT !.volumes =
                  Some([p \in {path} |-> [name |-> None, scope |-> s]])]) :
            path \in {PathC, PathD}, s \in Scopes},
     shell_config : {None},
     inspect : {[rc |-> "OK", path |-> None]},
     image_name : {ImgAB, ImgADotB, ImgC, ImgCDash1},
     image_tag : {Tag1, Tag1Dash1},
     binary_name : {BinX, BinY}]

---------------------------------------------------------------------------
(* Documents and their bytes                                               *)

(* ring::digest::digest(&SHA256, bytes)                                    *)
SHA256(bytes) == [sha |-> bytes]

(* serde_yaml::to_vec and serde_yaml::from_slice.  ws tells apart byte     *)
(* strings that parse to the same document (layout, comments); the         *)
(* serializer always writes layout 0.                                      *)
to_vec(document) == [yaml |-> document, ws |-> 0]

from_slice(bytes) == bytes.yaml

NoBinaryRunConfig == [path |-> None, run_config |-> None]

BinaryWith(rc) == [path |-> None, run_config |-> Some(rc)]

TagWith(bins) == [binaries |-> Some(bins), run_config |-> None]

OneImage(name, tags) == Some([n \in {name} |-> [tags |-> tags]])

VolumeOf(path, scope) ==
    [NoRunConfig EXCEPT
        !.volumes = Some([p \in {path} |-> [name |-> None, scope |-> scope]])]

EmptyShellConfig == [env |-> None, extra_paths |-> None]

(* ProjectConfig::new(): what `init` writes                                *)
DocInit ==
    [project_internal_id |-> PID, shell_config |-> None, images |-> None]

(* One image, one binary with a Project volume                             *)
DocVolume ==
    [DocInit EXCEPT !.images =
        OneImage(ImgC, [t \in {Tag1} |->
            TagWith([b \in {BinX} |-> BinaryWith(VolumeOf(PathD, "Project"))])])]

(* Two tags of one image, a binary each, a shell config with extra paths   *)
DocShell ==
    [DocInit EXCEPT
        !.shell_config =
            Some([env |-> Some([k \in {"S"} |-> <<"3">>]),
                  extra_paths |-> Some({PathR})]),
        !.images =
            OneImage(ImgAB,
                [t \in {Tag1, Tag2} |->
                    IF t = Tag1
                    THEN TagWith([b \in {BinX} |->
                             BinaryWith(VolumeOf(PathD, "OCIImage"))])
                    ELSE TagWith([b \in {BinY} |-> NoBinaryRunConfig])])]

(* A binary whose env sets PATH, without and with a shell config           *)
DocPathEnv ==
    [DocInit EXCEPT !.images =
        OneImage(ImgC, [t \in {Tag1} |->
            TagWith([b \in {BinX} |->
                BinaryWith([NoRunConfig EXCEPT
                    !.env = Some([k \in {"PATH"} |-> <<"1">>])])])])]

DocPathEnvShell == [DocPathEnv EXCEPT !.shell_config = Some(EmptyShellConfig)]

(* The same binary name under two tags                                     *)
DocDuplicate ==
    [DocInit EXCEPT !.images =
        OneImage(ImgAB, [t \in {Tag1, Tag2} |->
            TagWith([b \in {BinX} |-> NoBinaryRunConfig])])]

(* A shell env that sets PATH, and one binary without run config           *)
DocShellPath ==
    [DocInit EXCEPT
        !.shell_config =
            Some([env |-> Some([k \in {"PATH"} |-> <<"3">>]),
                  extra_paths |-> None]),
        !.images =
            OneImage(ImgC, [t \in {Tag1} |->
                TagWith([b \in {BinY} |-> NoBinaryRunConfig])])]

Docs ==
    {DocInit, DocVolume, DocShell, DocPathEnv, DocPathEnvShell, DocDuplicate,
     DocShellPath}

(* The Manifest files the user may write                                   *)
ManifestFiles ==
    {to_vec(d) : d \in Docs} \cup {[yaml |-> DocVolume, ws |-> 1]}

(* Iteration orders of the BTreeMaps keyed by image name, tag, binary name *)
SortedImageTags == << <<ImgAB, Tag1>>, <<ImgAB, Tag2>>, <<ImgC, Tag1>> >>

SortedBinaries == <<BinX, BinY>>

ImageTagsOf(images) ==
    SelectSeq(SortedImageTags,
              LAMBDA nt : /\ nt[1] \in DOMAIN images
                          /\ nt[2] \in DOMAIN images[nt[1]].tags)

---------------------------------------------------------------------------
(* The container runtime                                                   *)

(* The digest the registry serves for name:tag                             *)
RegistryDigest(name, tag) ==
    IF name = ImgC THEN <<"d", "3">>
    ELSE IF tag = Tag1 THEN <<"d", "1">> ELSE <<"d", "2">>

(* The PATH of the image's environment, if it sets one                     *)
ImageEnvPath(name) ==
    IF name = ImgAB THEN Some(<<"/", "b", "i", "n">>) ELSE None

(* A local image: its name, the tag it is known by (None after a pull by   *)
(* digest) and its digest.                                                 *)
LocalImage(name, tag, digest) ==
    [name |-> name, tag |-> tag, digest |-> digest]

HasTag(store, name, tag) ==
    \E e \in store : e.name = name /\ e.tag = Some(tag)

HasDigest(store, name, digest) ==
    \E e \in store : e.name = name /\ e.digest = digest

(* docker pull name:tag                                                    *)
PullTag(store, name, tag) ==
    {e \in store : ~(e.name = name /\ e.digest = RegistryDigest(name, tag)
                      /\ e.tag = None)}
        \cup {LocalImage(name, Some(tag), RegistryDigest(name, tag))}

(* The registry serves name@sha256:digest                                  *)
RegistryHas(name, digest) ==
    \E tag \in {Tag1, Tag2} : RegistryDigest(name, tag) = digest

(* docker pull name@sha256:digest                                          *)
PullDigest(store, name, digest) ==
    IF HasDigest(store, name, digest) THEN store
    ELSE store \cup {LocalImage(name, None, digest)}

(* docker inspect --format={{range .RepoDigests}}{{println .}}{{end}}:     *)
(* the lines of the output                                                 *)
RepoDigestsOutput(name, tag) ==
    << name \o <<"@", "sha256", ":">> \o RegistryDigest(name, tag) >>

---------------------------------------------------------------------------
(* install.rs: the Lock compiler                                           *)

(* str::split(sep): the pieces between the separators                      *)
RECURSIVE SplitOn(_, _)
SplitOn(s, sep) ==
    IF \A i \in 1..Len(s) : s[i] # sep THEN <<s>>
    ELSE LET k == CHOOSE i \in 1..Len(s) :
                    s[i] = sep /\ \A j \in 1..(i - 1) : s[j] # sep
         IN  <<SubSeq(s, 1, k - 1)>> \o SplitOn(SubSeq(s, k + 1, Len(s)), sep)

(* name@sha256:digest                                                      *)
ImageRef(name, hash) == name \o <<"@", "sha256", ":">> \o hash

(* The first line whose name part is image_name gives the hash: the piece  *)
(* after its first colon.  PROTOCOL when no line matches or the line has   *)
(* no colon.                                                               *)
get_hash_from_repo_digests_str(repo_digests, image_name) ==
    LET matching == SelectSeq(repo_digests,
                        LAMBDA l : Head(SplitOn(l, "@")) = image_name)
    IN  IF matching = <<>> THEN Exit("PROTOCOL")
        ELSE LET parts == SplitOn(Head(matching), ":")
             IN  IF Len(parts) >= 2 THEN OK(parts[2]) ELSE Exit("PROTOCOL")

(* The answer of `docker inspect` for the environment of name@sha256:hash  *)
InspectEnv(store, name, hash) ==
    IF HasDigest(store, name, hash)
    THEN [rc |-> "OK", path |-> ImageEnvPath(name)]
    ELSE [rc |-> "SOFTWARE", path |-> None]

(* The (image name, tag, binary name) triples in the order the compiler    *)
(* visits them                                                             *)
RECURSIVE BinaryDefsFrom(_, _)
BinaryDefsFrom(images, nts) ==
    IF nts = <<>> THEN <<>>
    ELSE LET nt == Head(nts)
             bins == images[nt[1]].tags[nt[2]].binaries
             names == IF bins = None THEN <<>>
                      ELSE SelectSeq(SortedBinaries,
                                     LAMBDA b : b \in DOMAIN Get(bins))
         IN  [i \in 1..Len(names) |-> <<nt[1], nt[2], names[i]>>]
                 \o BinaryDefsFrom(images, Tail(nts))

(* set_binaries_settings_from_binaries_defs taking the hash of the image's *)
(* first tag for every binary of the image                                 *)
set_binaries_settings_with_first_tag_hash(dst_binaries, def, config, images_name_tag_hash_rel, store) ==
    LET image_name == def[1]
        image_tag == def[2]
        binary_name == def[3]
        binary_config ==
            Get(Get(config.images)[image_name].tags[image_tag].binaries)[binary_name]
    IN  IF \/ image_name \notin DOMAIN images_name_tag_hash_rel
           \/ image_tag \notin DOMAIN images_name_tag_hash_rel[image_name]
        THEN Exit("SOFTWARE")
        ELSE IF binary_name \in DOMAIN dst_binaries
        THEN Exit("DATAERR")
        ELSE LET image_tag_config ==
                     images_name_tag_hash_rel[image_name][image_tag]
                 merged == merge_run_and_shell_configs(
                               image_tag_config.run_config,
                               binary_config.run_config,
                               config.shell_config,
                               config.project_internal_id,
                               image_name, image_tag,
                               InspectEnv(store, image_name,
                                          image_tag_config.hash),
                               binary_name)
             IN  IF merged.exit # "OK" THEN Exit(merged.exit)
                 ELSE OK(MapInsertAll(dst_binaries,
                        [b \in {binary_name} |->
                            [oci_image_name |-> image_name,
                             oci_image_hash |->
                                 images_name_tag_hash_rel[image_name][
                                     IF Tag1 \in DOMAIN images_name_tag_hash_rel[image_name]
                                     THEN Tag1 ELSE image_tag].hash,
                             path |-> IF binary_config.path # None
                                      THEN Get(binary_config.path)
                                      ELSE binary_name,
                             run_config |-> merged.val]]))

(* One turn of the loop of set_binaries_settings_from_binaries_defs:       *)
(* dst_binaries after the binary def is added, or the exit.                *)
set_binaries_settings_from_binaries_defs(dst_binaries, def, config, images_name_tag_hash_rel, store) ==
    LET image_name == def[1]
        image_tag == def[2]
        binary_name == def[3]
        binary_config ==
            Get(Get(config.images)[image_name].tags[image_tag].binaries)[binary_name]
    IN  IF \/ image_name \notin DOMAIN images_name_tag_hash_rel
           \/ image_tag \notin DOMAIN images_name_tag_hash_rel[image_name]
        THEN Exit("SOFTWARE")
        ELSE IF binary_name \in DOMAIN dst_binaries
        THEN Exit("DATAERR")
        ELSE LET image_tag_config ==
                     images_name_tag_hash_rel[image_name][image_tag]
                 merged == merge_run_and_shell_configs(
                               image_tag_config.run_config,
                               binary_config.run_config,
                               config.shell_config,
                               config.project_internal_id,
                               image_name, image_tag,
                               InspectEnv(store, image_name,
                                          image_tag_config.hash),
                               binary_name)
             IN  IF merged.exit # "OK" THEN Exit(merged.exit)
                 ELSE OK(MapInsertAll(dst_binaries,
                        [b \in {binary_name} |->
                            [oci_image_name |-> image_name,
                             oci_image_hash |-> image_tag_config.hash,
                             path |-> IF binary_config.path # None
                                      THEN Get(binary_config.path)
                                      ELSE binary_name,
                             run_config |-> merged.val]]))

RECURSIVE BinariesFold(_, _, _, _, _)
BinariesFold(dst, defs, config, rel, store) ==
    IF defs = <<>> THEN OK(dst)
    ELSE LET r == set_binaries_settings_from_binaries_defs(
                      dst, Head(defs), config, rel, store)
         IN  IF r.exit # "OK" THEN r
             ELSE BinariesFold(r.val, Tail(defs), config, rel, store)

get_binaries_settings(config, images_name_tag_hash_rel, store) ==
    IF config.images = None THEN OK(<<>>)
    ELSE BinariesFold(<<>>,
             BinaryDefsFrom(Get(config.images),
                            ImageTagsOf(Get(config.images))),
             config, images_name_tag_hash_rel, store)

(* ProjectConfigLock::new with an identifier of its own                    *)
ProjectConfigLock_with_other_id(project_config_hash, project_internal_id, shell_config, images, binaries) ==
    [project_config_hash |-> project_config_hash,
     project_internal_id |-> <<"P", "2">>,
     shell_config |-> shell_config,
     images |-> images,
     binaries |-> binaries]

(* ProjectConfigLock::new                                                  *)
ProjectConfigLock(project_config_hash, project_internal_id, shell_config, images, binaries) ==
    [project_config_hash |-> project_config_hash,
     project_internal_id |-> project_internal_id,
     shell_config |-> shell_config,
     images |-> images,
     binaries |-> binaries]

---------------------------------------------------------------------------
(* The state machine: files, workspace, runtime, one command at a time     *)

NoLocals ==
    [config |-> None, config_hash |-> None, work |-> <<>>, images |-> <<>>,
     config_lock |-> None, config_lock_hash |-> None,
     project_state |-> None, changed_state |-> FALSE,
     pulled_oci_images |-> FALSE]

IdleMergeIn ==
    [base_config |-> None, new_config |-> None, shell_config |-> None,
     inspect |-> [rc |-> "OK", path |-> None], image_name |-> ImgC,
     image_tag |-> Tag1, binary_name |-> BinX]

IdleArgsIn == [mode |-> "run", binary |-> BinX, user_args |-> <<>>]

IdleDispatchIn == << <<"avatar">> >>

(* The directories of the model: /a, /a/b and /o                           *)
InitDirs == {<<"/", "a">>, <<"/", "a", "/", "b">>, <<"/", "o">>}

(* What a directory holds under the name .avatar-cli: nothing, a file, or  *)
(* a directory with or without a regular file Avatarfile                   *)
NoConfigDir == [kind |-> "absent", avatarfile |-> None]

IdleInitIn ==
    [current_dir |-> <<"/", "o">>, project_path |-> <<"/", "o">>,
     fs |-> [d \in InitDirs |-> NoConfigDir],
     git |-> [repository |-> FALSE, gitignore |-> "absent"]]

(* A project with the Manifest its user wrote, before the first command,   *)
(* on a machine without images                                             *)
InitMain(manifests) ==
    /\ manifest \in manifests
    /\ lockFile = None
    /\ stateFile = None
    /\ volatileDir = FALSE
    /\ binDir = None
    /\ homeDir = None
    /\ imagesDir = None
    /\ local = {}
    /\ volumes = <<>>
    /\ helpers = {}
    /\ session = FALSE
    /\ pc = "idle"
    /\ cmd = "none"
    /\ loc = NoLocals
    /\ log = <<>>
    /\ exitCode = "none"
    /\ launched = None
    /\ prevRun = [cmd |-> "none", exit |-> "none", touched |-> {}]
    /\ touched = {}
    /\ steps = 0

IdlePure ==
    /\ mergeIn = IdleMergeIn
    /\ mergeOut = None
    /\ argsIn = IdleArgsIn
    /\ argsOut = None
    /\ initIn = IdleInitIn
    /\ initOut = None
    /\ dispatchIn = IdleDispatchIn
    /\ dispatchOut = None

Init == InitMain(ManifestFiles) /\ IdlePure

Ev(e, what) == [ev |-> e, what |-> what]

(* The command ends with exit(code), or with the exec of another program   *)
Ends(code, newlog) ==
    /\ pc' = "idle"
    /\ exitCode' = code
    /\ loc' = NoLocals
    /\ touched' = {}
    /\ log' = newlog

Goes(to, newloc, newlog) ==
    /\ pc' = to
    /\ exitCode' = "running"
    /\ loc' = newloc
    /\ touched' = touched
    /\ log' = newlog

StartCmd(c) ==
    /\ pc = "idle"
    /\ steps < MaxSteps
    /\ steps' = steps + 1
    /\ cmd' = c
    /\ prevRun' = [cmd |-> cmd, exit |-> exitCode, touched |-> touched]
    /\ launched' = None

Running(c, at) ==
    /\ cmd = c
    /\ pc = at
    /\ UNCHANGED <<cmd, prevRun, launched>>

(* n more failures of the environment (files, registry, runtime) happen    *)
Faults(n) ==
    /\ steps + n <= MaxSteps
    /\ steps' = steps + n

B(b) == IF b THEN 1 ELSE 0

---------------------------------------------------------------------------
(* What the user does between commands                                     *)

UserStep(what) ==
    /\ pc = "idle"
    /\ steps < MaxSteps
    /\ steps' = steps + 1
    /\ touched' = touched \cup what
    /\ UNCHANGED <<pc, cmd, loc, log, exitCode, launched, prevRun>>
    /\ UNCHANGED pureVars

EditManifest ==
    \E bytes \in ManifestFiles \ {manifest} :
        /\ UserStep({"manifest"})
        /\ manifest' = bytes
        /\ UNCHANGED <<lockFile, stateFile, dirVars, dockerVars, session>>

DeleteLock ==
    /\ lockFile # None
    /\ UserStep({"lock"})
    /\ lockFile' = None
    /\ UNCHANGED <<manifest, stateFile, dirVars, dockerVars, session>>

DeleteState ==
    /\ stateFile # None
    /\ UserStep({"state"})
    /\ stateFile' = None
    /\ UNCHANGED <<manifest, lockFile, dirVars, dockerVars, session>>

DeleteSubdirs ==
    \E gone \in (SUBSET {"bin", "home", "images"}) \ {{}} :
        /\ "bin" \in gone => binDir # None
        /\ "home" \in gone => homeDir # None
        /\ "images" \in gone => imagesDir # None
        /\ UserStep(gone)
        /\ binDir' = IF "bin" \in gone THEN None ELSE binDir
        /\ homeDir' = IF "home" \in gone THEN None ELSE homeDir
        /\ imagesDir' = IF "images" \in gone THEN None ELSE imagesDir
        /\ UNCHANGED <<fileVars, volatileDir, dockerVars, session>>

RemoveImage ==
    \E e \in local :
        /\ UserStep({"image"})
        /\ local' = local \ {e}
        /\ UNCHANGED <<fileVars, dirVars, volumes, helpers, session>>

RemoveVolume ==
    \E v \in DOMAIN volumes :
        /\ UserStep({"volume"})
        /\ volumes' = [w \in (DOMAIN volumes) \ {v} |-> volumes[w]]
        /\ UNCHANGED <<fileVars, dirVars, local, helpers, session>>

(* `exit` typed in the shell that `avatar shell` started                   *)
ExitShell ==
    /\ session
    /\ UserStep({"session"})
    /\ session' = FALSE
    /\ UNCHANGED <<fileVars, dirVars, dockerVars>>

---------------------------------------------------------------------------
(* install.rs: `avatar install`                                            *)

(* The (image name, tag) pairs get_image_compiled_configs resolves, in     *)
(* order; an image without tags gives one entry with the empty tag.        *)
WorkOf(images) ==
    IF images = None THEN <<>>
    ELSE LET im == Get(images)
             names == SelectSeq(<<ImgAB, ImgC>>, LAMBDA n : n \in DOMAIN im)
             entry(n) == IF DOMAIN im[n].tags = {} THEN << <<n, <<>> >> >>
                         ELSE SelectSeq(SortedImageTags,
                                  LAMBDA nt : nt[1] = n
                                              /\ nt[2] \in DOMAIN im[n].tags)
         IN  IF Len(names) = 0 THEN <<>>
             ELSE IF Len(names) = 1 THEN entry(names[1])
             ELSE entry(names[1]) \o entry(names[2])

(* images[name][tag] := config                                             *)
AddImageTag(images, name, tag, config) ==
    LET old == IF name \in DOMAIN images THEN images[name] ELSE <<>>
    IN  MapInsertAll(images,
            [n \in {name} |->
                MapInsertAll(old, [t \in {tag} |-> config])])

(* install_subcommand without the look at the session token                *)
InstallStart_without_session_check ==
    /\ StartCmd("install")
    /\ \E cwd_in_project \in BOOLEAN :
          IF ~cwd_in_project
          THEN Ends("USAGE", <<>>)
          ELSE Goes("settings", NoLocals, <<>>)
    /\ UNCHANGED <<fileVars, dirVars, dockerVars, session>>
    /\ UNCHANGED pureVars

(* install_subcommand up to the call of check_project_settings             *)
InstallStart ==
    /\ StartCmd("install")
    /\ \E cwd_in_project \in BOOLEAN :
          IF session \/ ~cwd_in_project
          THEN Ends("USAGE", <<>>)
          ELSE Goes("settings", NoLocals, <<>>)
    /\ UNCHANGED <<fileVars, dirVars, dockerVars, session>>
    /\ UNCHANGED pureVars

(* check_project_settings that forgets that it recompiles the Lock         *)
CheckProjectSettings_without_changed_state ==
    /\ Running("install", "settings")
    /\ LET config == from_slice(manifest)
           config_hash == SHA256(manifest)
           reuse == /\ lockFile # None
                    /\ from_slice(Get(lockFile)).project_config_hash
                           = config_hash
       IN  IF reuse
           THEN Goes("state",
                     [loc EXCEPT !.config = Some(config),
                                 !.config_hash = Some(config_hash),
                                 !.config_lock = Some(from_slice(Get(lockFile))),
                                 !.config_lock_hash =
                                     Some(SHA256(Get(lockFile)))],
                     log)
           ELSE Goes("resolve",
                     [loc EXCEPT !.config = Some(config),
                                 !.config_hash = Some(config_hash),
                                 !.work = WorkOf(config.images)],
                     log)
    /\ UNCHANGED <<fileVars, dirVars, dockerVars, session, steps>>
    /\ UNCHANGED pureVars

(* check_project_settings: the Manifest and the decision about the Lock    *)
CheckProjectSettings ==
    /\ Running("install", "settings")
    /\ LET config == from_slice(manifest)
           config_hash == SHA256(manifest)
           reuse == /\ lockFile # None
                    /\ from_slice(Get(lockFile)).project_config_hash
                           = config_hash
       IN  IF reuse
           THEN Goes("state",
                     [loc EXCEPT !.config = Some(config),
                                 !.config_hash = Some(config_hash),
                                 !.config_lock = Some(from_slice(Get(lockFile))),
                                 !.config_lock_hash =
                                     Some(SHA256(Get(lockFile)))],
                     log)
           ELSE Goes("resolve",
                     [loc EXCEPT !.config = Some(config),
                                 !.config_hash = Some(config_hash),
                                 !.changed_state = TRUE,
                                 !.work = WorkOf(config.images)],
                     log)
    /\ UNCHANGED <<fileVars, dirVars, dockerVars, session, steps>>
    /\ UNCHANGED pureVars

(* get_image_config_by_tag for the next (image, tag): inspect; on failure  *)
(* pull and call itself again.  inspect fails for an image the store does  *)
(* not hold under the tag, and it can fail for one it holds (the runtime's *)
(* exit status decides).                                                   *)
ResolveImage ==
    /\ Running("install", "resolve")
    /\ loc.work # <<>>
    /\ LET name == Head(loc.work)[1]
           tag == Head(loc.work)[2]
           fqn == name \o <<":">> \o tag
           hash == get_hash_from_repo_digests_str(
                       RepoDigestsOutput(name, tag), name)
       IN  IF tag = <<>>
           THEN Ends("DATAERR", log) /\ UNCHANGED <<local, steps>>
           ELSE \E inspected \in BOOLEAN, pulled \in BOOLEAN :
                  /\ inspected => (HasTag(local, name, tag) /\ pulled)
                  /\ Faults(B(HasTag(local, name, tag) /\ ~inspected)
                            + B(~pulled))
                  /\ IF inspected
                     THEN /\ UNCHANGED local
                          /\ IF hash.exit # "OK" THEN Ends(hash.exit, log)
                             ELSE Goes("resolve",
                                       [loc EXCEPT
                                           !.work = Tail(loc.work),
                                           !.images = AddImageTag(
                                               loc.images, name, tag,
                                               [hash |-> hash.val,
                                                run_config |->
                                                    Get(Get(loc.config).images)[name]
                                                        .tags[tag].run_config])],
                                       log)
                     ELSE IF pulled
                     THEN /\ local' = PullTag(local, name, tag)
                          /\ Goes("resolve", loc, Append(log, Ev("pull", fqn)))
                     ELSE /\ UNCHANGED local
                          /\ Ends("UNAVAILABLE",
                                  Append(log, Ev("pull_failed", fqn)))
    /\ UNCHANGED <<fileVars, dirVars, volumes, helpers, session>>
    /\ UNCHANGED pureVars

(* std::fs::write in save_result_to_file: the file afterwards.  A failed   *)
(* write is reported and the caller goes on.                               *)
save_result_to_file(file, serialized_bytes, written) ==
    IF written THEN Some(serialized_bytes) ELSE file

(* generate_config_lock once every image is resolved                       *)
GenerateConfigLock ==
    /\ Running("install", "resolve")
    /\ loc.work = <<>>
    /\ LET config == Get(loc.config)
           binaries_settings == get_binaries_settings(config, loc.images, local)
           config_lock == ProjectConfigLock(Get(loc.config_hash),
                              config.project_internal_id, config.shell_config,
                              loc.images, binaries_settings.val)
           config_lock_bytes == to_vec(config_lock)
       IN  IF binaries_settings.exit # "OK"
           THEN Ends(binaries_settings.exit, log) /\ UNCHANGED <<lockFile, steps>>
           ELSE \E written \in BOOLEAN :
                  /\ Faults(B(~written))
                  /\ lockFile' = save_result_to_file(lockFile,
                                     config_lock_bytes, written)
                  /\ Goes("state",
                          [loc EXCEPT !.config_lock = Some(config_lock),
                                      !.config_lock_hash =
                                          Some(SHA256(config_lock_bytes))],
                          Append(log, Ev(IF written THEN "write_lock"
                                         ELSE "write_lock_failed", <<>>)))
    /\ UNCHANGED <<manifest, stateFile, dirVars, dockerVars, session>>
    /\ UNCHANGED pureVars

(* ProjectConfigLock::update_project_config_hash                           *)
update_project_config_hash(self, new_hash) ==
    [self EXCEPT !.project_config_hash = new_hash]

(* install.rs update_project_state: the State it returns (and saves)       *)
update_project_state(project_state, config_lock_hash) ==
    update_project_config_hash(project_state, config_lock_hash)

(* check_project_settings: the decision about the State                    *)
ReconcileState ==
    /\ Running("install", "state")
    /\ LET config_lock == Get(loc.config_lock)
           config_lock_hash == Get(loc.config_lock_hash)
           reuse == /\ stateFile # None
                    /\ from_slice(Get(stateFile)).project_config_hash
                           = config_lock_hash
           project_state == update_project_state(config_lock, config_lock_hash)
       IN  IF reuse
           THEN /\ UNCHANGED <<stateFile, volatileDir, steps>>
                /\ Goes("images",
                        [loc EXCEPT !.project_state =
                                        Some(from_slice(Get(stateFile)))],
                        log)
           ELSE \E written \in BOOLEAN, volatile_dir_ok \in BOOLEAN :
                  /\ ~volatile_dir_ok => (written /\ ~volatileDir)
                  /\ Faults(B(~written) + B(~volatile_dir_ok))
                  /\ IF ~volatile_dir_ok
                     THEN UNCHANGED <<stateFile, volatileDir>>
                          /\ Ends("CANTCREAT", log)
                     ELSE /\ volatileDir' = TRUE
                          /\ stateFile' = save_result_to_file(stateFile,
                                              to_vec(project_state), written)
                          /\ Goes("images",
                                  [loc EXCEPT
                                      !.project_state = Some(project_state),
                                      !.changed_state = TRUE],
                                  Append(log, Ev(IF written THEN "write_state"
                                                 ELSE "write_state_failed",
                                                 <<>>)))
    /\ UNCHANGED <<manifest, lockFile, binDir, homeDir, imagesDir>>
    /\ UNCHANGED <<dockerVars, session>>
    /\ UNCHANGED pureVars

(* The (image name, tag, hash) triples of a Lock or State, in the order   *)
(* its images map is iterated                                              *)
LockImageTags(images) ==
    LET nts == SelectSeq(SortedImageTags,
                   LAMBDA nt : /\ nt[1] \in DOMAIN images
                               /\ nt[2] \in DOMAIN images[nt[1]])
    IN  [i \in 1..Len(nts) |->
            [name |-> nts[i][1], tag |-> nts[i][2],
             hash |-> images[nts[i][1]][nts[i][2]].hash]]

RECURSIVE PullAll(_, _)
PullAll(store, refs) ==
    IF refs = <<>> THEN store
    ELSE PullAll(PullDigest(store, Head(refs).name, Head(refs).hash),
                 Tail(refs))

(* check_oci_images_availability called before check_project_settings     *)
(* writes anything                                                         *)
CheckImages_before_settings ==
    /\ Running("install", "images")
    /\ LET refs == LockImageTags(Get(loc.project_state).images)
           missing == SelectSeq(refs,
                          LAMBDA r : ~HasDigest(local, r.name, r.hash))
           pulls(k) == [i \in 1..k |->
                           Ev("pull", ImageRef(missing[i].name, missing[i].hash))]
       IN  \E k \in 0..Len(missing) :
             /\ \A i \in 1..k : RegistryHas(missing[i].name, missing[i].hash)
             /\ Faults(B(k < Len(missing)
                          /\ RegistryHas(missing[k + 1].name,
                                         missing[k + 1].hash)))
             /\ local' = PullAll(local, SubSeq(missing, 1, k))
             /\ IF k = Len(missing)
                THEN Goes("volumes",
                          [loc EXCEPT !.pulled_oci_images = k > 0],
                          pulls(k) \o log)
                ELSE Ends("UNAVAILABLE",
                          pulls(k)
                              \o <<Ev("pull_failed",
                                      ImageRef(missing[k + 1].name,
                                               missing[k + 1].hash))>>
                              \o log)
    /\ UNCHANGED <<fileVars, dirVars, volumes, helpers, session>>
    /\ UNCHANGED pureVars

(* check_oci_images_availability: every image of the State that the        *)
(* runtime does not have is pulled by digest; the first pull that fails    *)
(* ends the command (pull_oci_image_by_fqn).                               *)
CheckImages ==
    /\ Running("install", "images")
    /\ LET refs == LockImageTags(Get(loc.project_state).images)
           missing == SelectSeq(refs,
                          LAMBDA r : ~HasDigest(local, r.name, r.hash))
           pulls(k) == [i \in 1..k |->
                           Ev("pull", ImageRef(missing[i].name, missing[i].hash))]
       IN  \E k \in 0..Len(missing) :
             /\ \A i \in 1..k : RegistryHas(missing[i].name, missing[i].hash)
             /\ Faults(B(k < Len(missing)
                          /\ RegistryHas(missing[k + 1].name,
                                         missing[k + 1].hash)))
             /\ local' = PullAll(local, SubSeq(missing, 1, k))
             /\ IF k = Len(missing)
                THEN Goes("volumes",
                          [loc EXCEPT !.pulled_oci_images = k > 0],
                          log \o pulls(k))
                ELSE Ends("UNAVAILABLE",
                          log \o pulls(k)
                              \o <<Ev("pull_failed",
                                      ImageRef(missing[k + 1].name,
                                               missing[k + 1].hash))>>)
    /\ UNCHANGED <<fileVars, dirVars, volumes, helpers, session>>
    /\ UNCHANGED pureVars

(* The VolumeConfigLock entries check_managed_volumes_availability visits  *)
RECURSIVE WantedVolumes(_, _)
WantedVolumes(binaries, names) ==
    IF names = <<>> THEN <<>>
    ELSE LET rc == binaries[Head(names)].run_config
             mine == IF rc # None /\ Get(rc).volumes # None
                     THEN Get(Get(rc).volumes) ELSE <<>>
         IN  mine \o WantedVolumes(binaries, Tail(names))

(* check_managed_volume_existence that creates nothing                     *)
check_managed_volume_existence_without_create(vols, volume_config, project_internal_id, outcome) ==
    [volumes |-> vols, exit |-> "OK"]

(* check_managed_volume_existence with create_volume and                   *)
(* change_volume_permissions: the volumes afterwards and the exit, if any. *)
(* outcome is the runtime's answer: "ok", "create_fail" or "chown_fail".   *)
check_managed_volume_existence(vols, volume_config, project_internal_id, outcome) ==
    LET name == volume_config.volume_name
        made(owned) == MapInsertAll(vols,
                           [n \in {name} |->
                               [project |-> project_internal_id,
                                owned |-> owned]])
    IN  IF name \in DOMAIN vols THEN [volumes |-> vols, exit |-> "OK"]
        ELSE IF outcome = "create_fail"
        THEN [volumes |-> vols, exit |-> "SOFTWARE"]
        ELSE IF outcome = "chown_fail"
        THEN [volumes |-> made(FALSE), exit |-> "SOFTWARE"]
        ELSE [volumes |-> made(TRUE), exit |-> "OK"]

RECURSIVE VolumesFold(_, _, _, _, _, _)
VolumesFold(vols, wanted, i, failAt, kind, pid) ==
    IF i > Len(wanted) THEN [volumes |-> vols, exit |-> "OK"]
    ELSE LET r == check_managed_volume_existence(
                      vols, wanted[i], pid,
                      IF i = failAt THEN kind ELSE "ok")
         IN  IF r.exit # "OK" THEN r
             ELSE VolumesFold(r.volumes, wanted, i + 1, failAt, kind, pid)

CheckVolumes ==
    /\ Running("install", "volumes")
    /\ LET project_state == Get(loc.project_state)
           wanted == WantedVolumes(project_state.binaries,
                         SelectSeq(SortedBinaries,
                             LAMBDA b : b \in DOMAIN project_state.binaries))
       IN  \E failAt \in 0..Len(wanted), kind \in {"create_fail", "chown_fail"} :
             LET r == VolumesFold(volumes, wanted, 1, failAt, kind,
                                  project_state.project_internal_id)
                 newlog == log \o [i \in 1..Cardinality((DOMAIN r.volumes)
                                                   \ DOMAIN volumes) |->
                                      Ev("volume_create", <<>>)]
             IN  /\ (failAt > 0) => (r.exit # "OK")
                 /\ (r.exit = "OK") => (kind = "create_fail")
                 /\ Faults(B(r.exit # "OK"))
                 /\ volumes' = r.volumes
                 /\ IF r.exit = "OK" THEN Goes("bin", loc, newlog)
                    ELSE Ends(r.exit, newlog)
    /\ UNCHANGED <<fileVars, dirVars, local, helpers, session>>
    /\ UNCHANGED pureVars

(* recreate_volatile_subdir: the directory afterwards, the exit if any,    *)
(* and whether Some(path) is returned.  outcome is the file system's       *)
(* answer: "ok", "remove_fail" or "create_fail".                           *)
recreate_volatile_subdir(dir, empty, changed_state, outcome) ==
    IF dir # None /\ ~changed_state
    THEN [dir |-> dir, exit |-> "OK", some |-> FALSE, ops |-> <<>>]
    ELSE IF dir # None /\ outcome = "remove_fail"
    THEN [dir |-> dir, exit |-> "IOERR", some |-> FALSE, ops |-> <<>>]
    ELSE IF outcome = "create_fail"
    THEN [dir |-> None, exit |-> "CANTCREAT", some |-> FALSE,
          ops |-> IF dir # None THEN <<"remove">> ELSE <<>>]
    ELSE [dir |-> Some(empty), exit |-> "OK", some |-> TRUE,
          ops |-> IF dir # None THEN <<"remove", "create">> ELSE <<"create">>]

DirOutcomes == {"ok", "remove_fail", "create_fail"}

DirLog(ops, subdir_name) == [i \in 1..Len(ops) |-> Ev(ops[i], subdir_name)]

(* ProjectConfigLock::get_binary_names, in the order of the map            *)
get_binary_names(self) ==
    SelectSeq(SortedBinaries, LAMBDA b : b \in DOMAIN self.binaries)

(* populate_volatile_bin_dir; links is the number of symlinks made before  *)
(* one fails, if one does.                                                 *)
PopulateBin ==
    /\ Running("install", "bin")
    /\ LET names == get_binary_names(Get(loc.project_state))
       IN  \E outcome \in DirOutcomes, links \in 0..Len(names) :
             LET r == recreate_volatile_subdir(binDir, {},
                          loc.pulled_oci_images \/ loc.changed_state, outcome)
                 newlog == log \o DirLog(r.ops, "bin")
             IN  IF r.exit # "OK"
                 THEN /\ links = Len(names)
                      /\ Faults(1)
                      /\ binDir' = r.dir
                      /\ Ends(r.exit, newlog)
                 ELSE IF ~r.some
                 THEN /\ links = Len(names) /\ outcome = "ok"
                      /\ Faults(0)
                      /\ binDir' = r.dir
                      /\ Goes("home", loc, newlog)
                 ELSE /\ outcome = "ok"
                      /\ Faults(B(links < Len(names)))
                      /\ binDir' = Some({names[i] : i \in 1..links})
                      /\ IF links = Len(names)
                         THEN Goes("home", loc, newlog)
                         ELSE Ends("CANTCREAT", newlog)
    /\ UNCHANGED <<fileVars, volatileDir, homeDir, imagesDir, dockerVars, session>>
    /\ UNCHANGED pureVars

(* populate_volatile_home_dir                                              *)
PopulateHome ==
    /\ Running("install", "home")
    /\ \E outcome \in DirOutcomes :
         LET r == recreate_volatile_subdir(homeDir, "empty",
                      loc.pulled_oci_images \/ loc.changed_state, outcome)
             newlog == log \o DirLog(r.ops, "home")
         IN  /\ outcome # "ok" => r.exit # "OK"
             /\ Faults(B(r.exit # "OK"))
             /\ homeDir' = r.dir
             /\ IF r.exit # "OK" THEN Ends(r.exit, newlog)
                ELSE Goes("passwd", loc, newlog)
    /\ UNCHANGED <<fileVars, volatileDir, binDir, imagesDir, dockerVars, session>>
    /\ UNCHANGED pureVars

(* The name of the helper container of check_etc_passwd_files             *)
HelperName(project_internal_id, r) ==
    project_internal_id \o <<"_">> \o Replace(r.name, "/", ".") \o <<"_">>
        \o r.tag \o <<"_">> \o r.hash \o <<"_", "passwd">>

PasswdOutcomes == {"ok", "mkdir_fail", "create_fail", "export_fail", "write_fail"}

(* The loops of check_etc_passwd_files over the images and tags of the     *)
(* State.  An error at one tag leaves the loop over the tags of that image *)
(* (skip holds the image's name); a directory that cannot be made ends the *)
(* process at once.                                                        *)
RECURSIVE PasswdFold(_, _, _, _, _, _, _, _)
PasswdFold(dir, containers, refs, i, outcomes, skip, errors, pid) ==
    IF i > Len(refs)
    THEN [dir |-> dir, helpers |-> containers, exit |-> "OK", errors |-> errors]
    ELSE LET r == refs[i]
             ref == ImageRef(r.name, r.hash)
             name == HelperName(pid, r)
             withDir(done) == MapInsertAll(dir, [d \in {ref} |-> done])
         IN  IF skip = Some(r.name)
             THEN PasswdFold(dir, containers, refs, i + 1, outcomes, skip,
                             errors, pid)
             ELSE IF outcomes[i] = "mkdir_fail"
             THEN [dir |-> dir, helpers |-> containers, exit |-> "CANTCREAT",
                   errors |-> errors]
             ELSE IF outcomes[i] = "create_fail" \/ name \in containers
             THEN PasswdFold(withDir(FALSE), containers, refs, i + 1, outcomes,
                             Some(r.name), TRUE, pid)
             ELSE IF outcomes[i] \in {"export_fail", "write_fail"}
             THEN PasswdFold(withDir(FALSE), containers \cup {name}, refs,
                             i + 1, outcomes, Some(r.name), TRUE, pid)
             ELSE PasswdFold(withDir(TRUE), containers \cup {name}, refs,
                             i + 1, outcomes, None, errors, pid)

(* check_etc_passwd_files, and the end of install_subcommand               *)
CheckPasswd ==
    /\ Running("install", "passwd")
    /\ LET project_state == Get(loc.project_state)
           refs == LockImageTags(project_state.images)
       IN  \E tar \in BOOLEAN, outcome \in DirOutcomes,
              outcomes \in [1..Len(refs) -> PasswdOutcomes] :
             LET r == recreate_volatile_subdir(imagesDir, <<>>,
                          loc.pulled_oci_images \/ loc.changed_state, outcome)
                 newlog == log \o DirLog(r.ops, "images")
                 f == PasswdFold(<<>>, helpers, refs, 1, outcomes, None, FALSE,
                                 project_state.project_internal_id)
             IN  /\ ~tar => (outcome = "ok" /\ \A i \in 1..Len(refs) :
                                                  outcomes[i] = "ok")
                 /\ (outcome # "ok") => (r.exit # "OK")
                 /\ (r.exit # "OK" \/ ~r.some) =>
                        \A i \in 1..Len(refs) : outcomes[i] = "ok"
                 /\ Faults(B(~tar) + B(outcome # "ok")
                           + Cardinality({i \in 1..Len(refs) :
                                             outcomes[i] # "ok"}))
                 /\ IF ~tar
                    THEN /\ UNCHANGED <<imagesDir, helpers>>
                         /\ Ends("OK", log \o <<Ev("no_tar", <<>>)>>)
                    ELSE IF r.exit # "OK" \/ ~r.some
                    THEN /\ imagesDir' = r.dir
                         /\ UNCHANGED helpers
                         /\ Ends(r.exit, newlog)
                    ELSE IF f.exit # "OK"
                    THEN /\ imagesDir' = Some(f.dir)
                         /\ helpers' = f.helpers
                         /\ Ends(f.exit, newlog)
                    ELSE /\ imagesDir' = Some(f.dir)
                         /\ helpers' = {}
                         /\ Ends(IF f.errors THEN "IOERR" ELSE "OK",
                                 newlog \o <<Ev("prune", <<>>)>>)
    /\ UNCHANGED <<fileVars, volatileDir, binDir, homeDir, local, volumes, session>>
    /\ UNCHANGED pureVars

---------------------------------------------------------------------------
(* shell.rs: `avatar shell`.  The file reads the Manifest, the Lock and    *)
(* the State under their former file names; its Lock has no run configs.   *)

ShellStart ==
    /\ StartCmd("shell")
    /\ \E cwd_in_project \in BOOLEAN :
          IF session \/ ~cwd_in_project
          THEN Ends("USAGE", <<>>)
          ELSE Goes("shell_lock", NoLocals, <<>>)
    /\ UNCHANGED <<fileVars, dirVars, dockerVars, session>>
    /\ UNCHANGED pureVars

(* get_image_hash_by_tag: the format argument carries its quotes, so the   *)
(* output is 'name@sha256:digest' and the piece after the first colon      *)
(* ends with the closing quote.                                            *)
get_image_hash_by_tag(name, tag) ==
    LET stdout == <<"'">> \o Head(RepoDigestsOutput(name, tag)) \o <<"'">>
        parts == SplitOn(stdout, ":")
    IN  IF Len(parts) >= 2 THEN OK(parts[2]) ELSE Exit("PROTOCOL")

RECURSIVE PullTags(_, _)
PullTags(store, nts) ==
    IF nts = <<>> THEN store
    ELSE PullTags(PullTag(store, Head(nts)[1], Head(nts)[2]), Tail(nts))

RECURSIVE image_hashes(_, _)
image_hashes(dst, work) ==
    IF work = <<>> THEN dst
    ELSE LET n == Head(work)[1]
             t == Head(work)[2]
         IN  image_hashes(
                 AddImageTag(dst, n, t,
                     [hash |-> get_image_hash_by_tag(n, t).val,
                      run_config |-> None]),
                 Tail(work))

(* shell.rs get_binaries_settings: a later insert of the same binary name  *)
(* replaces the earlier one, and the maps are iterated in no fixed order:  *)
(* every result the iteration order can give.                              *)
shell_binaries_settings(config, images_name_tag_hash_rel) ==
    LET defs == IF config.images = None THEN <<>>
                ELSE BinaryDefsFrom(Get(config.images),
                                    ImageTagsOf(Get(config.images)))
        names == {defs[i][3] : i \in 1..Len(defs)}
        lockOf(d) ==
            [oci_image_name |-> d[1],
             oci_image_hash |-> images_name_tag_hash_rel[d[1]][d[2]].hash,
             path |-> LET p == Get(Get(config.images)[d[1]].tags[d[2]].binaries)[d[3]].path
                      IN  IF p # None THEN Get(p) ELSE d[3],
             run_config |-> None]
    IN  {[b \in names |-> lockOf(pick[b])] :
            pick \in {q \in [names -> {defs[i] : i \in 1..Len(defs)}] :
                         \A b \in names : q[b][3] = b}}

(* shell.rs check_project_settings: the Manifest and the Lock              *)
ShellLock ==
    /\ Running("shell", "shell_lock")
    /\ LET config == from_slice(manifest)
           config_hash == SHA256(manifest)
           reuse == /\ lockFile # None
                    /\ from_slice(Get(lockFile)).project_config_hash
                           = config_hash
           work == WorkOf(config.images)
           missing == SelectSeq(work,
                          LAMBDA nt : nt[2] # <<>> /\ ~HasTag(local, nt[1], nt[2]))
           pulls(k) == [i \in 1..k |->
                           Ev("pull", missing[i][1] \o <<":">> \o missing[i][2])]
       IN  IF reuse
           THEN /\ UNCHANGED <<lockFile, local, steps>>
                /\ Goes("shell_state",
                        [loc EXCEPT !.config_lock = Some(from_slice(Get(lockFile))),
                                    !.config_lock_hash =
                                        Some(SHA256(Get(lockFile)))],
                        log)
           ELSE IF \E j \in 1..Len(work) : work[j][2] = <<>>
           THEN UNCHANGED <<lockFile, local, steps>> /\ Ends("DATAERR", log)
           ELSE \E k \in 0..Len(missing), written \in BOOLEAN :
                  /\ (k < Len(missing)) => written
                  /\ Faults(B(k < Len(missing)) + B(~written))
                  /\ local' = PullTags(local, SubSeq(missing, 1, k))
                  /\ IF k < Len(missing)
                     THEN /\ UNCHANGED lockFile
                          /\ Ends("UNAVAILABLE", log \o pulls(k))
                     ELSE \E binaries_settings \in shell_binaries_settings(
                                 config, image_hashes(<<>>, work)) :
                            LET config_lock ==
                                    ProjectConfigLock(config_hash,
                                        config.project_internal_id, None,
                                        image_hashes(<<>>, work),
                                        binaries_settings)
                                bytes == to_vec(config_lock)
                            IN  /\ lockFile' = save_result_to_file(
                                                   lockFile, bytes, written)
                                /\ Goes("shell_state",
                                        [loc EXCEPT
                                            !.config_lock = Some(config_lock),
                                            !.config_lock_hash =
                                                Some(SHA256(bytes))],
                                        (log \o pulls(k)) \o
                                            <<Ev(IF written THEN "write_lock"
                                                 ELSE "write_lock_failed",
                                                 <<>>)>>)
    /\ UNCHANGED <<manifest, stateFile, dirVars, volumes, helpers, session>>
    /\ UNCHANGED pureVars

(* shell.rs check_project_settings: the State.  A State whose hash differs *)
(* from the Lock's is given the new hash and saved as it is.  The volatile *)
(* directory is not made here, so without it the write fails.              *)
ShellState ==
    /\ Running("shell", "shell_state")
    /\ LET config_lock == Get(loc.config_lock)
           config_lock_hash == Get(loc.config_lock_hash)
           old == from_slice(Get(stateFile))
           project_state ==
               IF stateFile = None
               THEN update_project_state(config_lock, config_lock_hash)
               ELSE update_project_state(old, config_lock_hash)
       IN  IF stateFile # None /\ old.project_config_hash = config_lock_hash
           THEN /\ UNCHANGED <<stateFile, steps>>
                /\ Goes("shell_exec", [loc EXCEPT !.project_state = Some(old)],
                        log)
           ELSE \E written \in BOOLEAN :
                  /\ ~volatileDir => ~written
                  /\ Faults(B(volatileDir /\ ~written))
                  /\ stateFile' = save_result_to_file(stateFile,
                                      to_vec(project_state), written)
                  /\ Goes("shell_exec",
                          [loc EXCEPT !.project_state = Some(project_state),
                                      !.changed_state = TRUE],
                          Append(log, Ev(IF written THEN "write_state"
                                         ELSE "write_state_failed", <<>>)))
    /\ UNCHANGED <<manifest, lockFile, dirVars, dockerVars, session>>
    /\ UNCHANGED pureVars

(* shell.rs check_oci_images_availability (a pull that fails goes          *)
(* unnoticed) and the exec of the user's shell with the session variables  *)
ShellExec ==
    /\ Running("shell", "shell_exec")
    /\ LET refs == LockImageTags(Get(loc.project_state).images)
           missing == {refs[i] : i \in {j \in 1..Len(refs) :
                          ~HasDigest(local, refs[j].name, refs[j].hash)}}
           served == {r \in missing : RegistryHas(r.name, r.hash)}
       IN  \E pulled \in SUBSET served :
             /\ Faults(Cardinality(served \ pulled))
             /\ local' = local \cup
                           {LocalImage(r.name, None, r.hash) : r \in pulled}
             /\ session' = TRUE
             /\ Ends("EXEC", log \o [i \in 1..Cardinality(missing) |->
                                        Ev("pull_by_hash", <<>>)])
    /\ UNCHANGED <<fileVars, dirVars, volumes, helpers>>
    /\ UNCHANGED pureVars

---------------------------------------------------------------------------
(* run.rs: `avatar run <program>` and the shims of the bin directory       *)

(* run_docker_command up to the exec: TRUE when it exits with USAGE        *)
(* because the frozen run config carries PATH                              *)
run_rejects_path(binary_configuration) ==
    /\ binary_configuration.run_config # None
    /\ LET run_config == Get(binary_configuration.run_config)
       IN  \/ run_config.env # None /\ "PATH" \in DOMAIN Get(run_config.env)
           \/ /\ run_config.env = None \/ "PATH" \notin DOMAIN Get(run_config.env)
              /\ run_config.env_from_host # None
              /\ "PATH" \in Get(run_config.env_from_host)

(* run without the comparison of the hashes                               *)
run_without_hash_checks(used_program_name, cwd_in_project) ==
    IF ~cwd_in_project THEN "USAGE"
    ELSE IF lockFile = None \/ stateFile = None THEN "NOINPUT"
    ELSE LET project_state == from_slice(Get(stateFile))
         IN  IF used_program_name \notin DOMAIN project_state.binaries
             THEN "1"
             ELSE IF run_rejects_path(project_state.binaries[used_program_name])
             THEN "USAGE"
             ELSE "EXEC"

(* run: the exit code, or "EXEC" when docker run replaces the process      *)
run(used_program_name, cwd_in_project) ==
    IF ~cwd_in_project THEN "USAGE"
    ELSE IF lockFile = None \/ stateFile = None THEN "NOINPUT"
    ELSE LET config_hash == SHA256(manifest)
             config_lock == from_slice(Get(lockFile))
             config_lock_hash == SHA256(Get(lockFile))
             project_state == from_slice(Get(stateFile))
         IN  IF config_hash # config_lock.project_config_hash THEN "DATAERR"
             ELSE IF config_lock_hash # project_state.project_config_hash
             THEN "DATAERR"
             ELSE IF used_program_name \notin DOMAIN project_state.binaries
             THEN "1"
             ELSE IF run_rejects_path(project_state.binaries[used_program_name])
             THEN "USAGE"
             ELSE "EXEC"

Launch(mode, used_program_name, skip_args) ==
    LET binary_configuration ==
            from_slice(Get(stateFile)).binaries[used_program_name]
    IN  [mode |-> mode,
         binary |-> used_program_name,
         image_ref |-> ImageRef(binary_configuration.oci_image_name,
                                binary_configuration.oci_image_hash),
         path |-> binary_configuration.path,
         skip_args |-> skip_args]

RunCmd(mode, used_program_name, cwd_in_project, skip_args) ==
    LET code == run(used_program_name, cwd_in_project)
    IN  /\ pc = "idle"
        /\ steps < MaxSteps
        /\ steps' = steps + 1
        /\ cmd' = mode
        /\ prevRun' = [cmd |-> cmd, exit |-> exitCode, touched |-> touched]
        /\ launched' = IF code = "EXEC"
                       THEN Some(Launch(mode, used_program_name, skip_args))
                       ELSE None
        /\ Ends(code, <<Ev("invoked", [program |-> used_program_name,
                                        cwd_in_project |-> cwd_in_project])>>)
        /\ UNCHANGED <<fileVars, dirVars, dockerVars, session>>
        /\ UNCHANGED pureVars

(* run_subcommand: `avatar run <program>`, inside or outside a session     *)
RunSubcommand ==
    \E used_program_name \in {BinX, BinY}, cwd_in_project \in BOOLEAN :
        RunCmd("run", used_program_name, cwd_in_project, 4)

(* run_in_subshell_mode: a shim, started with the session's environment    *)
RunInSubshellMode ==
    /\ session
    /\ \E used_program_name \in {BinX, BinY}, cwd_in_project \in BOOLEAN :
          RunCmd("shim", used_program_name, cwd_in_project, 1)

(* A shim started without the session's environment: AvatarEnv::read exits *)
ShimWithoutSession ==
    /\ ~session
    /\ StartCmd("shim")
    /\ Ends("CONFIG", <<>>)
    /\ UNCHANGED <<fileVars, dirVars, dockerVars, session>>
    /\ UNCHANGED pureVars

(* Path::components: the names between the separators                      *)
Components(p) == SelectSeq(SplitOn(p, "/"), LAMBDA c : c # <<>>)

(* Path::ancestors: the path, its parent, and so on up to the root (or to  *)
(* the empty path for a relative one); paths compare by their components   *)
Ancestors(p) ==
    {[absolute |-> ~is_relative(p), names |-> SubSeq(Components(p), 1, k)] :
        k \in 0..Len(Components(p))}

(* project_path is among the ancestors of candidate, candidate included    *)
is_inside_project_dir(project_path, candidate) ==
    [absolute |-> ~is_relative(project_path),
     names |-> Components(project_path)] \in Ancestors(candidate)

(* Path::strip_prefix: Ok(the names after those of base) or Err            *)
strip_prefix(path, base) ==
    LET names == Components(path)
        prefix == Components(base)
    IN  IF /\ is_relative(path) = is_relative(base)
           /\ Len(prefix) <= Len(names)
           /\ SubSeq(names, 1, Len(prefix)) = prefix
        THEN OK(SubSeq(names, Len(prefix) + 1, Len(names)))
        ELSE Exit("Err")

(* The closure of transform_command_args, for one argument                 *)
transform_command_arg(project_path, arg) ==
    LET potential_path == arg
    IN  IF /\ ~is_relative(potential_path)
           /\ is_inside_project_dir(project_path, potential_path)
        THEN LET relative_path == strip_prefix(potential_path, project_path)
             IN  IF relative_path.exit = "OK"
                 THEN <<"/", "playground", "/">>
                          \o JoinWith(relative_path.val, <<"/">>)
                 ELSE arg
        ELSE arg

(* transform_command_args without any rewriting                            *)
transform_command_args_unchanged(skip_args, project_path, argv) ==
    SubSeq(argv, skip_args + 1, Len(argv))

(* transform_command_args: env::args().skip(skip_args), each rewritten     *)
transform_command_args(skip_args, project_path, argv) ==
    LET args == SubSeq(argv, skip_args + 1, Len(argv))
    IN  [i \in 1..Len(args) |-> transform_command_arg(project_path, args[i])]

(* init.rs and directories.rs: `avatar init`                               *)

(* get_project_path: the nearest ancestor of the current directory, itself *)
(* included, that holds .avatar-cli/Avatarfile as a regular file           *)
get_project_path(current_dir, fs) ==
    LET found == {d \in DOMAIN fs :
                    /\ [absolute |-> ~is_relative(d),
                        names |-> Components(d)] \in Ancestors(current_dir)
                    /\ fs[d].kind = "dir"
                    /\ fs[d].avatarfile # None}
    IN  IF found = {} THEN None
        ELSE Some(CHOOSE d \in found : \A e \in found : Len(e) <= Len(d))

(* patch_gitignore: the exit code, None when it returns, and .gitignore    *)
patch_gitignore(git, readable, written) ==
    IF git.gitignore # "absent"
    THEN IF git.gitignore = "dir" THEN [exit |-> Some("USAGE"), git |-> git]
         ELSE IF ~readable THEN [exit |-> Some("IOERR"), git |-> git]
         ELSE IF git.gitignore = "file"
         THEN IF written
              THEN [exit |-> None,
                    git |-> [git EXCEPT !.gitignore = "file_with_volatile"]]
              ELSE [exit |-> None, git |-> git]
         ELSE [exit |-> None, git |-> git]
    ELSE IF ~git.repository THEN [exit |-> None, git |-> git]
    ELSE IF written
    THEN [exit |-> None,
          git |-> [git EXCEPT !.gitignore = "file_with_volatile"]]
    ELSE [exit |-> Some("CANTCREAT"), git |-> git]

(* init_subcommand: the exit code and the files it leaves.  removed,       *)
(* created, saved, readable and written tell which of its file operations  *)
(* succeed; id is the identifier ProjectConfig::new draws.                 *)
init_subcommand(in, id, removed, created, saved, readable, written) ==
    LET config_dir == in.fs[in.project_path]
        emptied == [in.fs EXCEPT ![in.project_path] = NoConfigDir]
        made == [in.fs EXCEPT ![in.project_path] =
                    [kind |-> "dir",
                     avatarfile |->
                        IF saved
                        THEN Some(to_vec(
                                [DocInit EXCEPT !.project_internal_id = id]))
                        ELSE None]]
        patched == patch_gitignore(in.git, readable, written)
    IN  IF get_project_path(in.current_dir, in.fs) # None
        THEN [exit |-> "USAGE", fs |-> in.fs, git |-> in.git]
        ELSE IF config_dir.kind = "file"
        THEN [exit |-> "USAGE", fs |-> in.fs, git |-> in.git]
        ELSE IF config_dir.kind = "dir" /\ ~removed
        THEN [exit |-> "OSERR", fs |-> in.fs, git |-> in.git]
        ELSE IF ~created
        THEN [exit |-> "CANTCREAT", fs |-> emptied, git |-> in.git]
        ELSE [exit |-> IF patched.exit = None THEN "OK"
                       ELSE Get(patched.exit),
              fs |-> made, git |-> patched.git]

(* main.rs and avatar_env.rs: the start of the process                     *)

(* get_used_program_name: the piece of argv[0] after its last separator    *)
get_used_program_name(first_arg) ==
    LET pieces == SplitOn(first_arg, "/")
    IN  pieces[Len(pieces)]

(* main: under the names avatar and avatar-cli it prints its arguments and *)
(* exits with SOFTWARE; under any other name it goes on as the shim of the *)
(* binary of that name.  Neither branch parses subcommands.                *)
main(argv) ==
    LET used_program_name == get_used_program_name(argv[1])
    IN  IF used_program_name = <<"avatar">>
           \/ used_program_name = <<"avatar-cli">>
        THEN [branch |-> "avatar", exit |-> Some("SOFTWARE"),
              binary |-> None, parsed |-> FALSE]
        ELSE [branch |-> "shim", exit |-> None,
              binary |-> Some(used_program_name), parsed |-> FALSE]

---------------------------------------------------------------------------

Next ==
    \/ EditManifest
    \/ DeleteLock
    \/ DeleteState
    \/ DeleteSubdirs
    \/ RemoveImage
    \/ RemoveVolume
    \/ ExitShell
    \/ InstallStart
    \/ CheckProjectSettings
    \/ ResolveImage
    \/ GenerateConfigLock
    \/ ReconcileState
    \/ CheckImages
    \/ CheckVolumes
    \/ PopulateBin
    \/ PopulateHome
    \/ CheckPasswd
    \/ ShellStart
    \/ ShellLock
    \/ ShellState
    \/ ShellExec
    \/ RunSubcommand
    \/ RunInSubshellMode
    \/ ShimWithoutSession

Spec == Init /\ [][Next]_vars

---------------------------------------------------------------------------
(* Specification of the run-config merger alone                            *)

InitMerge ==
    /\ InitMain({to_vec(DocInit)})
    /\ mergeOut = None
    /\ argsIn = IdleArgsIn
    /\ argsOut = None
    /\ initIn = IdleInitIn
    /\ initOut = None
    /\ dispatchIn = IdleDispatchIn
    /\ dispatchOut = None
    /\ \/ mergeIn \in MergeInputs(EnvConfigs, Opt(ShellConfigs),
                                   InspectEnvAnswers, {ImgC}, {BinX})
       \/ mergeIn \in MergeInputs(VolumeRunConfigs, {None},
                                   {[rc |-> "OK", path |-> None]},
                                   {ImgAB, ImgC}, {BinX, BinY})
       \/ mergeIn \in MergeInputs(BindingConfigs, {None},
                                   {[rc |-> "OK", path |-> None]},
                                   {ImgC}, {BinX})
       \/ mergeIn \in NameInputs

Merge ==
    /\ mergeOut = None
    /\ mergeOut' = Some(merge_run_and_shell_configs(
                        mergeIn.base_config, mergeIn.new_config,
                        mergeIn.shell_config, PID, mergeIn.image_name,
                        mergeIn.image_tag, mergeIn.inspect,
                        mergeIn.binary_name))
    /\ UNCHANGED mergeIn
    /\ UNCHANGED <<mainVars, argsVars, initVars, dispatchVars>>

NextMerge == Merge

SpecMerge == InitMerge /\ [][NextMerge]_vars

---------------------------------------------------------------------------
(* Specification of the forwarding of the user's arguments alone           *)

(* The longest list of user arguments                                      *)
MaxArgs == 2

(* The project root of the invocations                                     *)
ProjectPath == <<"/", "p">>

(* /p, /p/s, /p/s/t, /pq, /o, s, p/s, -v                                   *)
UserArgs ==
    {<<"/", "p">>, <<"/", "p", "/", "s">>, <<"/", "p", "/", "s", "/", "t">>,
     <<"/", "p", "q">>, <<"/", "o">>, <<"s">>, <<"p", "/", "s">>,
     <<"-", "v">>}

ArgLists == UNION {[1..n -> UserArgs] : n \in 0..MaxArgs}

InitArgs ==
    /\ InitMain({to_vec(DocInit)})
    /\ mergeIn = IdleMergeIn
    /\ mergeOut = None
    /\ argsIn \in [mode : {"run", "shim"}, binary : {BinX},
                    user_args : ArgLists]
    /\ argsOut = None
    /\ initIn = IdleInitIn
    /\ initOut = None
    /\ dispatchIn = IdleDispatchIn
    /\ dispatchOut = None

(* run_subcommand: `avatar run <binary> <user args>`, run(.., 4), and the  *)
(* last arguments run_docker_command gives to docker run                   *)
ForwardRun ==
    /\ argsIn.mode = "run"
    /\ argsOut = None
    /\ LET argv == <<<<"avatar">>, <<"run">>, argsIn.binary>>
                       \o argsIn.user_args
       IN  argsOut' = Some(transform_command_args(4, ProjectPath, argv))
    /\ UNCHANGED argsIn
    /\ UNCHANGED <<mainVars, mergeVars, initVars, dispatchVars>>

(* run_in_subshell_mode: `<binary> <user args>` through the shim,          *)
(* run(.., 1)                                                              *)
ForwardShim ==
    /\ argsIn.mode = "shim"
    /\ argsOut = None
    /\ LET argv == <<argsIn.binary>> \o argsIn.user_args
       IN  argsOut' = Some(transform_command_args(1, ProjectPath, argv))
    /\ UNCHANGED argsIn
    /\ UNCHANGED <<mainVars, mergeVars, initVars, dispatchVars>>

NextArgs == ForwardRun \/ ForwardShim

SpecArgs == InitArgs /\ [][NextArgs]_vars

---------------------------------------------------------------------------
(* Specification of `avatar init` alone                                    *)

(* The identifiers ProjectConfig::new may draw, that of the existing       *)
(* projects among them                                                     *)
NewIds == {PID, <<"P", "2">>}

ConfigDirs ==
    {NoConfigDir, [kind |-> "file", avatarfile |-> None],
     [kind |-> "dir", avatarfile |-> None],
     [kind |-> "dir", avatarfile |-> Some(to_vec(DocInit))]}

InitInit ==
    /\ InitMain({to_vec(DocInit)})
    /\ mergeIn = IdleMergeIn
    /\ mergeOut = None
    /\ argsIn = IdleArgsIn
    /\ argsOut = None
    /\ initIn \in [current_dir : InitDirs, project_path : InitDirs,
                    fs : [InitDirs -> ConfigDirs],
                    git : [repository : BOOLEAN,
                           gitignore : {"absent", "dir", "file",
                                        "file_with_volatile"}]]
    /\ initOut = None
    /\ dispatchIn = IdleDispatchIn
    /\ dispatchOut = None

(* select: `avatar init [-p <project_path>]`, project_path being the       *)
(* current directory without -p                                            *)
InitSubcommand ==
    /\ initOut = None
    /\ \E id \in NewIds, removed, created, saved, readable, written \in BOOLEAN :
          initOut' = Some(init_subcommand(initIn, id, removed, created,
                                          saved, readable, written))
    /\ UNCHANGED initIn
    /\ UNCHANGED <<mainVars, mergeVars, argsVars, dispatchVars>>

NextInit == InitSubcommand

SpecInit == InitInit /\ [][NextInit]_vars

---------------------------------------------------------------------------
(* Specification of the start of the process alone                         *)

(* Where the executable or the symlink is: nowhere, /usr/bin/, ./, and the *)
(* volatile bin directory of the project                                   *)
ProgramDirs ==
    {<<>>, <<"/", "usr", "/", "bin", "/">>, <<".", "/">>,
     <<"/", "p", "/", ".avatar-cli", "/", "volatile", "/", "bin", "/">>,
     <<"avatar", "/">>}

(* avatar, avatar-cli, x, y, avatarx, xavatar, avatar-cl, Avatar, install  *)
ProgramNames ==
    {<<"avatar">>, <<"avatar-cli">>, BinX, BinY, <<"avatar", "x">>,
     <<"x", "avatar">>, <<"avatar-cl">>, <<"Avatar">>, <<"install">>}

(* What follows argv[0]                                                    *)
ProgramArgs == {<<>>, << <<"install">> >>, << <<"run">>, BinX >>}

InitDispatch ==
    /\ InitMain({to_vec(DocInit)})
    /\ mergeIn = IdleMergeIn
    /\ mergeOut = None
    /\ argsIn = IdleArgsIn
    /\ argsOut = None
    /\ initIn = IdleInitIn
    /\ initOut = None
    /\ dispatchIn \in {<<d \o n>> \o a :
                          d \in ProgramDirs, n \in ProgramNames,
                          a \in ProgramArgs}
    /\ dispatchOut = None

Main ==
    /\ dispatchOut = None
    /\ dispatchOut' = Some(main(dispatchIn))
    /\ UNCHANGED dispatchIn
    /\ UNCHANGED <<mainVars, mergeVars, argsVars, initVars>>

NextDispatch == Main

SpecDispatch == InitDispatch /\ [][NextDispatch]_vars


---------------------------------------------------------------------------
(* Properties                                                              *)

InstallSucceeded == pc = "idle" /\ cmd = "install" /\ exitCode = "OK"

LastEv == IF log = <<>> THEN "none" ELSE log[Len(log)].ev

StateBinaries == DOMAIN from_slice(Get(stateFile)).binaries

(* C1: after an install that ended successfully (and before the user       *)
(* changes anything), the Lock on disk carries the SHA-256 of the Manifest *)
(* bytes on disk.                                                          *)
C1_LockHashOfManifest ==
    (InstallSucceeded /\ touched = {}) =>
        /\ lockFile # None
        /\ from_slice(Get(lockFile)).project_config_hash = SHA256(manifest)

(* C2: after an install that ended successfully, the State on disk carries *)
(* the SHA-256 of the bytes of the Lock on disk.                           *)
C2_StateHashOfLock ==
    (InstallSucceeded /\ touched = {}) =>
        /\ lockFile # None
        /\ stateFile # None
        /\ from_slice(Get(stateFile)).project_config_hash
               = SHA256(Get(lockFile))

(* C3: when reconciliation (of install or of shell) has just regenerated   *)
(* the State, the State it returns is the current Lock with only           *)
(* project_config_hash replaced by the Lock's hash, and that is what it    *)
(* persists when the write succeeds.                                       *)
C3_StateIsCopyOfLock ==
    (pc \in {"images", "shell_exec"}
        /\ LastEv \in {"write_state", "write_state_failed"}) =>
        LET copy == [Get(loc.config_lock) EXCEPT
                        !.project_config_hash = Get(loc.config_lock_hash)]
        IN  /\ Get(loc.project_state) = copy
            /\ LastEv = "write_state" => stateFile = Some(to_vec(copy))

(* The Manifest declares the binary under this image and tag               *)
Declares(config, image_name, image_tag, binary_name) ==
    /\ config.images # None
    /\ image_name \in DOMAIN Get(config.images)
    /\ image_tag \in DOMAIN Get(config.images)[image_name].tags
    /\ LET tag == Get(config.images)[image_name].tags[image_tag]
       IN  tag.binaries # None /\ binary_name \in DOMAIN Get(tag.binaries)

(* C4: in the Lock the compiler of install has just produced, every binary *)
(* names an image of the Lock's images and carries the hash recorded for   *)
(* that image under the tag that declares the binary in the Manifest.      *)
C4_BinariesResolveToImages ==
    (cmd = "install" /\ pc = "state"
        /\ LastEv \in {"write_lock", "write_lock_failed"}) =>
        LET config == Get(loc.config)
            config_lock == Get(loc.config_lock)
        IN  \A b \in DOMAIN config_lock.binaries :
              LET e == config_lock.binaries[b]
              IN  /\ e.oci_image_name \in DOMAIN config_lock.images
                  /\ \E t \in DOMAIN config_lock.images[e.oci_image_name] :
                       /\ Declares(config, e.oci_image_name, t, b)
                       /\ e.oci_image_hash =
                              config_lock.images[e.oci_image_name][t].hash

(* A Lock with binaries of two tags of one image has just been compiled    *)
C4_Witness ==
    /\ cmd = "install"
    /\ pc = "state"
    /\ LastEv = "write_lock"
    /\ DOMAIN Get(loc.config_lock).binaries = {BinX, BinY}
    /\ Get(loc.config_lock).binaries[BinX].oci_image_hash
           # Get(loc.config_lock).binaries[BinY].oci_image_hash

(* C5: after an install that ended successfully, the entries of the bin    *)
(* directory are the binary names of the State, whatever earlier runs did. *)
C5_BinMatchesState ==
    (InstallSucceeded /\ touched = {} /\ stateFile # None) =>
        binDir = Some(StateBinaries)

Effects == {"write_lock", "write_state", "pull", "volume_create", "remove"}

(* C6: an install directly after a successful install, with nothing        *)
(* changed in between, writes no file, pulls no image, creates no volume   *)
(* and removes no volatile subdirectory (so replaces no symlink).          *)
C6_SecondInstallIsNoOp ==
    (InstallSucceeded /\ prevRun.cmd = "install" /\ prevRun.exit = "OK"
        /\ prevRun.touched = {}) =>
        \A i \in 1..Len(log) : log[i].ev \notin Effects

Subdirs == {"bin", "home", "images"}

(* C7: when volatile subdirectories were deleted after a successful        *)
(* install and install has run again successfully, every deleted one is    *)
(* back and populated, and no subdirectory that still existed was removed. *)
C7_DeletedSubdirsRecreated ==
    (InstallSucceeded /\ touched = {} /\ stateFile # None
        /\ prevRun.cmd = "install" /\ prevRun.exit = "OK"
        /\ prevRun.touched # {} /\ prevRun.touched \subseteq Subdirs) =>
        /\ "bin" \in prevRun.touched => binDir = Some(StateBinaries)
        /\ "home" \in prevRun.touched => homeDir # None
        /\ "images" \in prevRun.touched =>
              /\ imagesDir # None
              /\ LET refs == LockImageTags(from_slice(Get(stateFile)).images)
                 IN  \A i \in 1..Len(refs) :
                       LET ref == ImageRef(refs[i].name, refs[i].hash)
                       IN  ref \in DOMAIN Get(imagesDir) /\ Get(imagesDir)[ref]
        /\ \A i \in 1..Len(log) : log[i].ev # "remove"

(* The hash chain of the files on disk is broken                           *)
HashMismatch ==
    /\ lockFile # None
    /\ \/ from_slice(Get(lockFile)).project_config_hash # SHA256(manifest)
       \/ /\ stateFile # None
          /\ from_slice(Get(stateFile)).project_config_hash
                 # SHA256(Get(lockFile))

RunEnded == pc = "idle" /\ cmd \in {"run", "shim"} /\ touched = {}

HasPath(env, env_from_host) ==
    \/ env # None /\ "PATH" \in DOMAIN Get(env)
    \/ env_from_host # None /\ "PATH" \in Get(env_from_host)

(* The Manifest sets PATH: in its shell env, or in the env or env_from_host *)
(* of a binary merged with those of its image tag                          *)
ManifestSetsPath(config) ==
    \/ /\ config.shell_config # None
       /\ HasPath(Get(config.shell_config).env, None)
    \/ /\ config.images # None
       /\ \E n \in DOMAIN Get(config.images) :
          \E t \in DOMAIN Get(config.images)[n].tags :
            LET tag == Get(config.images)[n].tags[t]
            IN  /\ tag.binaries # None
                /\ \E b \in DOMAIN Get(tag.binaries) :
                     LET m == merge_run_configs(tag.run_config,
                                  Get(tag.binaries)[b].run_config,
                                  config.project_internal_id, n, t, b)
                     IN  m # None /\ HasPath(Get(m).env, Get(m).env_from_host)

(* C9: the compiler of install never gets as far as persisting a Lock for  *)
(* a Manifest that sets PATH, with or without a shell config.              *)
C9_PathIsRefused ==
    (cmd = "install" /\ pc = "state"
        /\ LastEv \in {"write_lock", "write_lock_failed"}) =>
        ~ManifestSetsPath(Get(loc.config))

(* image_name:tag with every / replaced by .                               *)
image_ref_dotted(image_name, image_tag) ==
    Replace(image_name \o <<":">> \o image_tag, "/", ".")

(* The volume name the format of C10 gives                                 *)
NameByFormat(volume_config, container_path, in) ==
    IF volume_config.name # None THEN Get(volume_config.name)
    ELSE CASE volume_config.scope = "Project" ->
                <<"p", "r", "j", "_">> \o PID \o <<"_">>
                    \o path_hash(container_path)
           [] volume_config.scope = "OCIImage" ->
                <<"i", "m", "g", "_">> \o PID \o <<"_">>
                    \o image_ref_dotted(in.image_name, in.image_tag) \o <<"_">>
                    \o path_hash(container_path)
           [] volume_config.scope = "Binary" ->
                <<"b", "i", "n", "_">> \o PID \o <<"_">>
                    \o image_ref_dotted(in.image_name, in.image_tag) \o <<"_">>
                    \o in.binary_name \o <<"_">> \o path_hash(container_path)

(* The volumes of the two run configs, the binary's over the image tag's   *)
SourceVolumes(in) ==
    LET of(c) == IF c # None /\ Get(c).volumes # None
                 THEN Get(Get(c).volumes) ELSE <<>>
    IN  MapInsertAll(of(in.base_config), of(in.new_config))

(* C10: every volume of a merged run config is named by the format, and a  *)
(* volume with an explicit name keeps it.                                  *)
C10_VolumeNames ==
    (mergeOut # None /\ Get(mergeOut).exit = "OK" /\ Get(mergeOut).val # None
        /\ Get(Get(mergeOut).val).volumes # None) =>
        LET vols == Get(Get(Get(mergeOut).val).volumes)
        IN  \A i \in 1..Len(vols) :
              vols[i].volume_name =
                  NameByFormat(SourceVolumes(mergeIn)[vols[i].container_path],
                               vols[i].container_path, mergeIn)

(* What distinguishes two unnamed volumes of one project: the scope, the   *)
(* container path and, where the scope uses them, image, tag and binary    *)
VolumeKey(in, container_path) ==
    LET scope == SourceVolumes(in)[container_path].scope
    IN  CASE scope = "Project" -> <<scope, container_path>>
          [] scope = "OCIImage" ->
                <<scope, container_path, in.image_name, in.image_tag>>
          [] scope = "Binary" ->
                <<scope, container_path, in.image_name, in.image_tag,
                  in.binary_name>>

(* The merged volumes of an input of the merger                            *)
VolumesOf(in) ==
    LET out == merge_run_and_shell_configs(
                   in.base_config, in.new_config, in.shell_config, PID,
                   in.image_name, in.image_tag, in.inspect, in.binary_name)
    IN  IF out.exit = "OK" /\ out.val # None /\ Get(out.val).volumes # None
        THEN Get(Get(out.val).volumes) ELSE <<>>

(* C11: two unnamed volumes of one project that differ in scope, container *)
(* path or (where the scope uses them) image name, tag or binary name get  *)
(* different synthesized names.                                            *)
C11_NamesInjective ==
    (mergeIn \in NameInputs /\ mergeOut # None) =>
        \A other \in NameInputs :
          LET mine == VolumesOf(mergeIn)
              theirs == VolumesOf(other)
          IN  \A i \in 1..Len(mine), j \in 1..Len(theirs) :
                VolumeKey(mergeIn, mine[i].container_path)
                        # VolumeKey(other, theirs[j].container_path)
                    => mine[i].volume_name # theirs[j].volume_name

(* The field of a run config given to the merger, None without the config  *)
FieldOf(config, field) ==
    IF config = None THEN None ELSE Get(config)[field]

(* The entries of an optional mapping, none for an absent one              *)
EntriesOf(mapping) == IF mapping = None THEN <<>> ELSE Get(mapping)

(* The overlay's entries over the base's: None when neither side has the   *)
(* field                                                                   *)
Overlaid(base, overlay) ==
    IF base = None /\ overlay = None THEN None
    ELSE LET b == EntriesOf(base)
             o == EntriesOf(overlay)
         IN  Some([k \in (DOMAIN b) \cup (DOMAIN o) |->
                      IF k \in DOMAIN o THEN o[k] ELSE b[k]])

MergedWithoutShell ==
    /\ mergeOut # None
    /\ mergeIn.shell_config = None
    /\ Get(mergeOut).exit = "OK"

(* C12: without a shell config, env, bindings and volumes of the merged    *)
(* run config have the keys of both sides, a key of the overlay with the   *)
(* overlay's value and any other with the base's; every merged volume is   *)
(* named from the volume config so chosen.                                 *)
C12_MappingsOverlaid ==
    MergedWithoutShell =>
        LET b == mergeIn.base_config
            n == mergeIn.new_config
            out == Get(mergeOut).val
        IN  IF b = None /\ n = None THEN out = None
            ELSE /\ out # None
                 /\ Get(out).env = Overlaid(FieldOf(b, "env"), FieldOf(n, "env"))
                 /\ Get(out).bindings =
                        Overlaid(FieldOf(b, "bindings"), FieldOf(n, "bindings"))
                 /\ LET src == Overlaid(FieldOf(b, "volumes"),
                                        FieldOf(n, "volumes"))
                        vols == Get(out).volumes
                    IN  IF src = None THEN vols = None
                        ELSE /\ vols # None
                             /\ Len(Get(vols)) = Cardinality(DOMAIN Get(src))
                             /\ \A p \in DOMAIN Get(src) :
                                  \E i \in 1..Len(Get(vols)) :
                                    /\ Get(vols)[i].container_path = p
                                    /\ Get(vols)[i].volume_name =
                                         generate_volume_name(
                                             PID,
                                             mergeIn.image_name \o <<"-">>
                                                 \o mergeIn.image_tag,
                                             mergeIn.binary_name,
                                             Get(src)[p], p)

(* Both sides set the variable A, to different values, and the merged env  *)
(* carries the overlay's                                                   *)
C12_Witness ==
    /\ MergedWithoutShell
    /\ FieldOf(mergeIn.base_config, "env") = Some([k \in {"A"} |-> <<"1">>])
    /\ FieldOf(mergeIn.new_config, "env") = Some([k \in {"A"} |-> <<"2">>])
    /\ Get(Get(mergeOut).val).env = Some([k \in {"A"} |-> <<"2">>])

(* The members of an optional set, none for an absent one                  *)
MembersOf(set) == IF set = None THEN {} ELSE Get(set)

(* The union of two optional sets: None when neither side has the field    *)
United(base, overlay) ==
    IF base = None /\ overlay = None THEN None
    ELSE Some(MembersOf(base) \cup MembersOf(overlay))

(* C13: env_from_host and extra_paths of the merged run config are the     *)
(* union of the two sides' sets, an absent side adding nothing; merging    *)
(* in the other order gives the same sets and merging a set with itself    *)
(* gives that set.                                                         *)
C13_SetsUnited ==
    (MergedWithoutShell /\ Get(mergeOut).val # None) =>
        LET out == Get(Get(mergeOut).val)
            bh == FieldOf(mergeIn.base_config, "env_from_host")
            nh == FieldOf(mergeIn.new_config, "env_from_host")
            bx == FieldOf(mergeIn.base_config, "extra_paths")
            nx == FieldOf(mergeIn.new_config, "extra_paths")
        IN  /\ out.env_from_host = United(bh, nh)
            /\ out.extra_paths = United(bx, nx)
            /\ merge_envs_from_host(nh, bh) = out.env_from_host
            /\ merge_extra_paths(nx, bx) = out.extra_paths
            /\ merge_envs_from_host(bh, bh) = bh
            /\ merge_extra_paths(bx, bx) = bx

(* Both sides take a variable from the host, different ones, and the       *)
(* merged run config takes both                                            *)
C13_Witness ==
    /\ MergedWithoutShell
    /\ FieldOf(mergeIn.base_config, "env_from_host") = Some({"H"})
    /\ FieldOf(mergeIn.new_config, "env_from_host") = Some({"PATH"})
    /\ Get(Get(mergeOut).val).env_from_host = Some({"H", "PATH"})

(* C14: with a shell config, the env of the compiled run config has every  *)
(* key of the shell's env, and a key the merged run config sets as well    *)
(* carries the run config's value.                                         *)
C14_ShellEnvBeneath ==
    (mergeOut # None /\ Get(mergeOut).exit = "OK"
        /\ mergeIn.shell_config # None
        /\ Get(mergeIn.shell_config).env # None) =>
        LET shell_env == Get(Get(mergeIn.shell_config).env)
            run_env == EntriesOf(Overlaid(FieldOf(mergeIn.base_config, "env"),
                                          FieldOf(mergeIn.new_config, "env")))
            out == Get(mergeOut).val
        IN  /\ out # None
            /\ Get(out).env # None
            /\ \A k \in DOMAIN shell_env :
                  /\ k \in DOMAIN Get(Get(out).env)
                  /\ Get(Get(out).env)[k] =
                        IF k \in DOMAIN run_env THEN run_env[k] ELSE shell_env[k]

(* C15: in one install run no image tag is pulled twice.                   *)
C15_OnePullPerTag ==
    cmd = "install" =>
        \A i, j \in 1..Len(log) :
            (i < j /\ log[i].ev = "pull") => log[j] # log[i]

(* The binary names a Manifest declares                                    *)
DeclaredBinaries(config) ==
    IF config.images = None THEN {}
    ELSE LET defs == BinaryDefsFrom(Get(config.images),
                                    ImageTagsOf(Get(config.images)))
         IN  {defs[i][3] : i \in 1..Len(defs)}

(* The Manifest declares one binary name under two (image, tag) pairs      *)
Duplicated(config) ==
    /\ config.images # None
    /\ LET defs == BinaryDefsFrom(Get(config.images),
                                  ImageTagsOf(Get(config.images)))
       IN  \E i, j \in 1..Len(defs) : i # j /\ defs[i][3] = defs[j][3]

JustCompiled ==
    /\ pc \in {"state", "shell_state"}
    /\ LastEv \in {"write_lock", "write_lock_failed"}

(* C16: no Lock is compiled from a Manifest that declares a binary name    *)
(* twice, and a run that ends with DATAERR has written no Lock; a compiled *)
(* Lock has exactly the binary names the Manifest declares.                *)
C16_DuplicateIsDataErr ==
    /\ JustCompiled =>
          /\ ~Duplicated(from_slice(manifest))
          /\ DOMAIN Get(loc.config_lock).binaries
                 = DeclaredBinaries(from_slice(manifest))
    /\ (pc = "idle" /\ cmd \in {"install", "shell"} /\ exitCode = "DATAERR") =>
          \A i \in 1..Len(log) : log[i].ev # "write_lock"

(* The arguments transform_command_args was given: the invocation's        *)
(* arguments after the skipped ones                                        *)
GivenArgs ==
    IF argsIn.mode = "run"
    THEN SubSeq(<<<<"avatar">>, <<"run">>, argsIn.binary>>
                    \o argsIn.user_args, 5, 3 + Len(argsIn.user_args))
    ELSE argsIn.user_args

StartsWith(s, prefix) ==
    Len(prefix) <= Len(s) /\ SubSeq(s, 1, Len(prefix)) = prefix

(* arg names the project root or something below it                        *)
UnderProject(arg) ==
    arg = ProjectPath \/ StartsWith(arg, ProjectPath \o <<"/">>)

(* /playground/<path relative to the project root>                         *)
InPlayground(arg) ==
    <<"/", "playground", "/">>
        \o SubSeq(arg, Len(ProjectPath) + 2, Len(arg))

(* C17: each forwarded argument is /playground/<relative path> exactly     *)
(* when it is an absolute path at or below the project root; every other   *)
(* argument (absolute outside the root, relative, an option) is passed     *)
(* unchanged, and the forwarded arguments keep their number and order.     *)
C17_ArgsRewritten ==
    argsOut # None =>
        /\ Len(Get(argsOut)) = Len(GivenArgs)
        /\ \A i \in 1..Len(GivenArgs) :
              Get(argsOut)[i] = IF UnderProject(GivenArgs[i])
                                THEN InPlayground(GivenArgs[i])
                                ELSE GivenArgs[i]

(* The shim forwarded a path below the project root after a path outside   *)
C17_Witness ==
    /\ argsIn.mode = "shim"
    /\ argsIn.user_args = << <<"/", "o">>, <<"/", "p", "/", "s">> >>
    /\ argsOut = Some(<< <<"/", "o">>, <<"/", "playground", "/", "s">> >>)

(* C18: `avatar run b a1 .. an` and the shim `b a1 .. an` give docker run  *)
(* the same arguments after the program path, a1 .. an after the path      *)
(* rewriting: none is dropped in either mode.                              *)
C18_SameUserArgs ==
    argsOut # None =>
        Get(argsOut) = transform_command_args(0, ProjectPath,
                                              argsIn.user_args)

(* C19: started with the session token set, install and shell end at once  *)
(* with USAGE: no project file is written, the runtime and the volatile    *)
(* workspace are left alone and nothing is done before the exit, so that   *)
(* no later step of either command ever runs inside a session.             *)
C19_NestedSessionRefused ==
    /\ [][((InstallStart \/ ShellStart) /\ session) =>
              /\ pc' = "idle"
              /\ exitCode' = "USAGE"
              /\ log' = <<>>
              /\ UNCHANGED <<fileVars, dirVars, dockerVars, session>>]_vars
    /\ []((cmd \in {"install", "shell"} /\ pc # "idle") => ~session)

(* install was started inside a session and ended with USAGE               *)
C19_Witness ==
    /\ session
    /\ cmd = "install"
    /\ pc = "idle"
    /\ exitCode = "USAGE"
    /\ prevRun.cmd = "shell"
    /\ prevRun.exit = "EXEC"

(* d holds .avatar-cli/Avatarfile                                          *)
IsProjectRoot(fs, d) == fs[d].kind = "dir" /\ fs[d].avatarfile # None

(* The directories at or above path                                        *)
AtOrAbove(path) == {d \in InitDirs : StartsWith(path \o <<"/">>, d \o <<"/">>)}

(* C20: when project_path or one of its ancestors is a project root,       *)
(* `avatar init -p project_path` ends with USAGE and leaves every file as  *)
(* it was, whatever the current directory; so no init replaces a Manifest  *)
(* that exists.                                                            *)
C20_InitRefusesOverProject ==
    initOut # None =>
        /\ (\E d \in AtOrAbove(initIn.project_path) :
                IsProjectRoot(initIn.fs, d)) =>
              /\ Get(initOut).exit = "USAGE"
              /\ Get(initOut).fs = initIn.fs
              /\ Get(initOut).git = initIn.git
        /\ \A d \in InitDirs :
              IsProjectRoot(initIn.fs, d) => Get(initOut).fs[d] = initIn.fs[d]

(* C27: a failed write of the Lock or of the State is the last thing the   *)
(* run does: it ends there with an exit code other than success, and       *)
(* nothing (a State write, an image check, a workspace rebuild) follows.   *)
C27_FailedWriteEndsRun ==
    \A i \in 1..Len(log) :
        log[i].ev \in {"write_lock_failed", "write_state_failed"} =>
            /\ i = Len(log)
            /\ pc = "idle"
            /\ exitCode \notin {"OK", "EXEC", "running"}

(* The images of a Manifest with the digests the runtime reports           *)
ImagesWithDigests(config) ==
    IF config.images = None THEN <<>>
    ELSE LET images == Get(config.images)
         IN  [name \in DOMAIN images |->
                [tag \in DOMAIN images[name].tags |->
                    [hash |-> RegistryDigest(name, tag),
                     run_config |-> images[name].tags[tag].run_config]]]

(* A runtime that holds every image                                        *)
EveryImage ==
    {LocalImage(nt[1], Some(nt[2]), RegistryDigest(nt[1], nt[2])) :
        nt \in {SortedImageTags[i] : i \in 1..Len(SortedImageTags)}}

(* The Lock bytes as a function of the Manifest bytes alone                *)
LockBytesOf(bytes) ==
    LET config == from_slice(bytes)
    IN  to_vec(ProjectConfigLock(SHA256(bytes), config.project_internal_id,
                   config.shell_config, ImagesWithDigests(config),
                   get_binaries_settings(config, ImagesWithDigests(config),
                                         EveryImage).val))

(* The State bytes as a function of the Manifest bytes alone               *)
StateBytesOf(bytes) ==
    to_vec(update_project_config_hash(from_slice(LockBytesOf(bytes)),
                                      SHA256(LockBytesOf(bytes))))

(* The first command of the project was an install and it succeeded        *)
FirstInstallSucceeded ==
    /\ cmd = "install"
    /\ pc = "idle"
    /\ exitCode = "OK"
    /\ prevRun.cmd = "none"
    /\ touched = {}

(* C21: an install that starts without Lock and State and succeeds leaves  *)
(* a Lock and a State whose bytes are determined by the bytes of the       *)
(* Manifest (and the digests and PATH values of the images) alone, so two  *)
(* such runs leave byte-identical files whatever the runtime held before   *)
(* and whatever was pulled on the way.                                     *)
C21_LockAndStateByManifest ==
    FirstInstallSucceeded =>
        /\ lockFile = Some(LockBytesOf(manifest))
        /\ stateFile = Some(StateBytesOf(manifest))

(* A run or shim invocation from inside the project found the three files  *)
(* with an unbroken hash chain                                             *)
RunPassedChecks ==
    /\ RunEnded
    /\ log # <<>>
    /\ log[1].ev = "invoked"
    /\ log[1].what.cwd_in_project
    /\ lockFile # None
    /\ stateFile # None
    /\ ~HashMismatch

(* C22: an invocation under a name that is not a key of State.binaries     *)
(* ends with USAGE and launches no container.                              *)
C22_UnknownBinaryIsUsage ==
    (RunPassedChecks
        /\ log[1].what.program
               \notin DOMAIN from_slice(Get(stateFile)).binaries) =>
        (exitCode = "USAGE" /\ launched = None)

(* The text of argv[0] after its last separator                            *)
Basename(first_arg) ==
    LET seps == {i \in 1..Len(first_arg) : first_arg[i] = "/"}
        last == IF seps = {} THEN 0
                ELSE CHOOSE i \in seps : \A j \in seps : j <= i
    IN  SubSeq(first_arg, last + 1, Len(first_arg))

(* C23: the process enters subcommand mode (it parses and dispatches a     *)
(* subcommand) exactly when the basename of argv[0] is avatar or           *)
(* avatar-cli; under every other basename it is the shim of the binary of  *)
(* that name and parses no subcommand.                                     *)
C23_ModeByBasename ==
    dispatchOut # None =>
        LET name == Basename(dispatchIn[1])
            out == Get(dispatchOut)
        IN  IF name \in {<<"avatar">>, <<"avatar-cli">>}
            THEN out.parsed /\ out.exit = None
            ELSE /\ out.branch = "shim"
                 /\ out.binary = Some(name)
                 /\ ~out.parsed

(* A step of install, shell, run or a shim                                 *)
CommandStep ==
    \/ InstallStart \/ CheckProjectSettings \/ ResolveImage
    \/ GenerateConfigLock \/ ReconcileState \/ CheckImages \/ CheckVolumes
    \/ PopulateBin \/ PopulateHome \/ CheckPasswd
    \/ ShellStart \/ ShellLock \/ ShellState \/ ShellExec
    \/ RunSubcommand \/ RunInSubshellMode \/ ShimWithoutSession

RecompiledLock ==
    \E i \in 1..Len(log) : log[i].ev \in {"write_lock", "write_lock_failed"}

(* The run wrote the State, or tried to                                    *)
RewroteState ==
    \E i \in 1..Len(log) : log[i].ev \in {"write_state", "write_state_failed"}

(* C25: check_project_settings recompiles the Lock exactly when the Lock   *)
(* is missing or does not carry the Manifest's hash, rewrites the State    *)
(* exactly when the State is missing or does not carry the Lock's hash,    *)
(* and returns changed = true exactly when it did one of the two; with     *)
(* changed = false it wrote no file and returns what it read from disk.    *)
C25_ChangedIffRegenerated ==
    /\ [][CheckProjectSettings =>
            (pc' = "state" <=>
                (/\ lockFile # None
                 /\ from_slice(Get(lockFile)).project_config_hash
                        = SHA256(manifest)))]_vars
    /\ [][(ReconcileState /\ pc' = "images") =>
            (log' = log <=>
                (/\ stateFile # None
                 /\ from_slice(Get(stateFile)).project_config_hash
                        = Get(loc.config_lock_hash)))]_vars
    /\ []((cmd = "install" /\ pc = "images") =>
             /\ loc.changed_state <=> (RecompiledLock \/ RewroteState)
             /\ ~loc.changed_state =>
                   /\ log = <<>>
                   /\ lockFile # None
                   /\ stateFile # None
                   /\ loc.config_lock = Some(from_slice(Get(lockFile)))
                   /\ loc.project_state = Some(from_slice(Get(stateFile))))

(* A second install found both hashes matching                             *)
C25_Witness ==
    /\ cmd = "install"
    /\ pc = "images"
    /\ prevRun.cmd = "install"
    /\ ~loc.changed_state
    /\ log = <<>>

(* The kinds of the entries of the log of an install                       *)
IsLockWrite(e) == e.ev \in {"write_lock", "write_lock_failed"}

IsStateWrite(e) == e.ev \in {"write_state", "write_state_failed"}

(* A pull of the image-availability pass: by digest, name@sha256:hash      *)
IsAvailabilityPull(e) ==
    /\ e.ev \in {"pull", "pull_failed"}
    /\ \E k \in 1..Len(e.what) : e.what[k] = "@"

IsWorkspaceOp(e) == e.ev \in {"remove", "create", "prune", "no_tar"}

(* C26: in the log of one install no State write precedes a Lock write, no *)
(* pull of the image-availability pass precedes a Lock or State write, and *)
(* nothing is removed from or created in the volatile directory before the *)
(* last write and the last pull; bin, home and images are left alone until *)
(* the image-availability pass is over.                                    *)
C26_PhasesInOrder ==
    /\ [](cmd = "install" =>
            \A i, j \in 1..Len(log) :
                i < j =>
                    /\ ~(IsStateWrite(log[i]) /\ IsLockWrite(log[j]))
                    /\ ~(IsAvailabilityPull(log[i])
                            /\ (IsLockWrite(log[j]) \/ IsStateWrite(log[j])))
                    /\ ~(IsWorkspaceOp(log[i])
                            /\ (IsLockWrite(log[j]) \/ IsStateWrite(log[j])
                                   \/ log[j].ev \in {"pull", "pull_failed"})))
    /\ [][(cmd' = "install"
              /\ pc \in {"idle", "settings", "resolve", "state", "images"}
              /\ pc' # pc) =>
             UNCHANGED <<binDir, homeDir, imagesDir>>]_vars

(* An install rewrote the State, then pulled an image by digest, then      *)
(* rebuilt bin                                                             *)
C26_Witness ==
    /\ cmd = "install"
    /\ \E i, j, k \in 1..Len(log) :
          /\ i < j /\ j < k
          /\ IsStateWrite(log[i])
          /\ IsAvailabilityPull(log[j]) /\ log[j].ev = "pull"
          /\ log[k].ev = "create" /\ log[k].what = "bin"

(* The names of the volumes of the binaries of a Lock or State             *)
VolumeNamesOf(project_state) ==
    LET wanted == WantedVolumes(project_state.binaries,
                                get_binary_names(project_state))
    IN  {wanted[i].volume_name : i \in 1..Len(wanted)}

C29_DeclaredShimReachesExec ==
    (RunPassedChecks
        /\ cmd = "shim"
        /\ log[1].what.program \in DOMAIN from_slice(Get(stateFile)).binaries)
        => (exitCode = "EXEC" /\ launched # None)

(* C30: the passwd step of an install leaves behind no helper container   *)
(* that it created: every path on which one was created ends with the     *)
(* container prune before the process terminates.                          *)
C30_HelpersPruned ==
    [][CheckPasswd =>
          /\ helpers' \subseteq helpers
          /\ helpers' # helpers =>
                 (log' # <<>> /\ log'[Len(log')].ev = "prune")]_vars

====
